---- MODULE Spec2Model ----
(***************************************************************************)
(* Waylist: a chat bot recording vehicle waybills (src/main.py).           *)
(*                                                                         *)
(* State: the two SQLite tables (vehicles, waybills) with their            *)
(* AUTOINCREMENT counters, and the per-user FSM session kept by aiogram's  *)
(* MemoryStorage (a state name and a data dict).  One action per message   *)
(* handler; the guard of each action is the router's choice (handlers are  *)
(* tried in registration order, a handler without a state filter matches   *)
(* in every state).                                                        *)
(*                                                                         *)
(* Numbers typed by the user are finite decimals, held as integers in      *)
(* hundredths (1.00 -> 100).  Times of day are held as minutes after       *)
(* midnight.  Plates and search terms are sequences of characters.         *)
(*                                                                         *)
(* Spec      one user; every message is handled to completion before the   *)
(*           next one is handled.                                          *)
(* SpecUsers two users whose messages interleave, each handled to          *)
(*           completion; the second user searches and deletes vehicles.    *)
(* SpecTasks one user; dp.start_polling() handles every update in a task   *)
(*           of its own: a handler suspended in `await message.answer()`   *)
(*           lets another message be handled before it resumes.            *)
(* SpecLate  one user, one vehicle, one stored waybill; the user also ends  *)
(*           a trip where it began, types a fuel balance above what the    *)
(*           tank held, and presses a menu button in the last stage.       *)
(* SpecTrip  one user, one vehicle of 0.12 l/km, one stored waybill of a    *)
(*           trip from 1000 km to 1150 km.                                 *)
(* SpecAdders two users whose messages interleave, both adding vehicles    *)
(*           of the same plates.                                           *)
(* SpecClock one user recording a trip that leaves and returns at several *)
(*           times of the day, midnight and the minute before it included. *)
(* SpecDays  two users recording trips of one vehicle, one conversation at *)
(*           a time, over two days.                                        *)
(* SpecGone  two users; the second adds and deletes the vehicle of which   *)
(*           the first records a trip.                                     *)
(* SpecBoot  the process from the moment the module is loaded, with or     *)
(*           without BOT_TOKEN in its environment, then one user as in     *)
(*           SpecTrip.                                                     *)
(***************************************************************************)
EXTENDS Integers, Sequences, FiniteSets, TLC

VARIABLES vehicles, nextVehicleId, waybills, nextWaybillId, today,
          state, data, pending, handle_as_tasks, last, process

vars == <<vehicles, nextVehicleId, waybills, nextWaybillId, today,
          state, data, pending, handle_as_tasks, last, process>>

(***************************************************************************)
(* Bounds of the model.                                                    *)
(***************************************************************************)
MaxVehicleId == 2
MaxWaybillId == 2
MaxPending == 1
MaxDay == 2
UsersMaxWaybillId == 1

Users == {"u1", "u2"}
TaskUsers == {"u1"}

(***************************************************************************)
(* Program constants: the accepted ranges of the two rates, in hundredths. *)
(***************************************************************************)
MinFuelRate == 1
MaxFuelRate == 500
MinIdleRate == 10
MaxIdleRate == 1000

(***************************************************************************)
(* FSM states (StatesGroup classes) and the flow each belongs to.          *)
(***************************************************************************)
None == "None"

AddVehicleStates == {"AddVehicleStates:number", "AddVehicleStates:fuel_rate",
                     "AddVehicleStates:idle_rate"}

SearchVehicleStates == {"SearchVehicleStates:search_term"}

DeleteVehicleStates == {"DeleteVehicleStates:select_vehicle",
                        "DeleteVehicleStates:confirm_delete"}

WaybillStates == {"WaybillStates:vehicle_selected", "WaybillStates:start_time",
                  "WaybillStates:initial_data_choice", "WaybillStates:odo_start",
                  "WaybillStates:fuel_start", "WaybillStates:end_time",
                  "WaybillStates:odo_end", "WaybillStates:overuse_choice",
                  "WaybillStates:overuse_hours", "WaybillStates:overuse_manual",
                  "WaybillStates:economy", "WaybillStates:fuel_end_choice",
                  "WaybillStates:fuel_refuel", "WaybillStates:fuel_end_manual"}

Stages == AddVehicleStates \cup SearchVehicleStates \cup DeleteVehicleStates
            \cup WaybillStates

Flow(st) ==
    IF st \in AddVehicleStates THEN "add_vehicle"
    ELSE IF st \in SearchVehicleStates THEN "search_vehicle"
    ELSE IF st \in DeleteVehicleStates THEN "delete_vehicle"
    ELSE IF st \in WaybillStates THEN "waybill"
    ELSE "none"

(***************************************************************************)
(* Messages.  kind: "cmd" a slash command, "btn" a button label, "veh" a   *)
(* vehicle button (the car emoji, a space, then chars), "num" a text that  *)
(* float() parses (num, in hundredths), "time" a text that strptime        *)
(* parses with %H:%M (num, minutes), "text" any other text (chars).        *)
(***************************************************************************)
Msg(k, s, n, c) == [kind |-> k, str |-> s, num |-> n, chars |-> c]

Cmd(s) == Msg("cmd", s, 0, <<>>)
Btn(s) == Msg("btn", s, 0, <<>>)
Veh(c) == Msg("veh", "", 0, c)
Num(n) == Msg("num", "", n, <<>>)
Time(t) == Msg("time", "", t, <<>>)
Txt(c) == Msg("text", "", 0, c)

Commands == {"/start", "/help", "/cancel", "/stats", "/info"}

\* Button labels, by the keyboard that shows them (lines 523-623).
BtnCancel == "cancel"                  \* "❌ Отмена"
BtnBack == "back"                      \* "⬅️ Назад"
BtnBackMenu == "back_menu"             \* "⬅️ Назад в меню"
BtnNewWaybill == "new_waybill"         \* "📝 Новый путевой лист"
BtnVehicles == "vehicles"              \* "🚗 Автомобили"
BtnStats == "stats"                    \* "📈 Статистика"
BtnInfo == "info"                      \* "ℹ️ Инфо о боте"
BtnList == "list_vehicles"             \* "📋 Список автомобилей"
BtnSearch == "search_vehicle"          \* "🔍 Поиск автомобиля"
BtnAdd == "add_vehicle"                \* "🚗 Добавить автомобиль"
BtnDelete == "delete_vehicle"          \* "🗑️ Удалить автомобиль"
BtnSkip == "skip"                      \* "⏭ Пропустить"
BtnUsePrevious == "use_previous"       \* "✅ Использовать данные предыдущего дня"
BtnEnterManually == "enter_manually"   \* "✏️ Ввести вручную"
BtnOveruseIdle == "overuse_idle"       \* "🕒 Рассчитать по простому"
BtnOveruseManual == "overuse_manual"   \* "✏️ Ввести перерасход вручную"
BtnNoOveruse == "no_overuse"           \* "✅ Нет перерасхода"
BtnFuelAuto == "fuel_auto"             \* "📊 Рассчитать автоматически"
BtnFuelManual == "fuel_manual"         \* "✏️ Ввести остаток вручную"
BtnRefuel == "refuel"                  \* "⛽ Добавить заправку"
BtnYesDelete == "yes_delete"           \* "✅ Да, удалить"
BtnNoDelete == "no_delete"             \* "❌ Нет, отменить"

MenuButtons == {BtnNewWaybill, BtnVehicles, BtnStats, BtnInfo, BtnList,
                BtnSearch, BtnAdd, BtnDelete}

ChoiceButtons == {BtnSkip, BtnUsePrevious, BtnEnterManually, BtnOveruseIdle,
                  BtnOveruseManual, BtnNoOveruse, BtnFuelAuto, BtnFuelManual,
                  BtnRefuel, BtnYesDelete, BtnNoDelete}

Buttons == {BtnCancel, BtnBack, BtnBackMenu} \cup MenuButtons \cup ChoiceButtons

(***************************************************************************)
(* The users.  What a user types when a stage has prompted for an answer:  *)
(* answers the stage accepts and answers it rejects (Garbage is a text     *)
(* that is neither a number, a time, a button nor a command).              *)
(***************************************************************************)
Garbage == Txt(<<"?">>)

StageInputs(st) ==
    CASE st = "SearchVehicleStates:search_term" ->
           {Txt(<<"b", "1">>), Txt(<<"z", "z">>), Garbage}
      [] st = "AddVehicleStates:number" ->
           {Txt(<<"a", "b", "1", " ">>), Garbage}
      [] st = "AddVehicleStates:fuel_rate" -> {Num(0), Num(200), Num(600), Num(1200), Garbage}
      [] st = "AddVehicleStates:idle_rate" -> {Num(0), Num(200), Num(1100), Garbage}
      [] st = "DeleteVehicleStates:select_vehicle" ->
           {Veh(<<"A", "B", "1">>), Veh(<<"Z", "Z", "9">>)}
      [] st = "DeleteVehicleStates:confirm_delete" ->
           {Btn(BtnYesDelete), Btn(BtnNoDelete)}
      [] st = "WaybillStates:vehicle_selected" ->
           {Veh(<<"A", "B", "1">>), Veh(<<"Z", "Z", "9">>)}
      [] st = "WaybillStates:start_time" -> {Time(480), Garbage}
      [] st = "WaybillStates:initial_data_choice" ->
           {Btn(BtnUsePrevious), Btn(BtnEnterManually), Garbage}
      [] st = "WaybillStates:odo_start" -> {Num(-100), Num(100), Garbage}
      [] st = "WaybillStates:fuel_start" -> {Num(-100), Num(300), Garbage}
      [] st = "WaybillStates:end_time" -> {Time(1020), Garbage}
      [] st = "WaybillStates:odo_end" -> {Num(-100), Num(0), Num(200), Garbage}
      [] st = "WaybillStates:overuse_choice" ->
           {Btn(BtnOveruseIdle), Btn(BtnOveruseManual), Btn(BtnNoOveruse), Garbage}
      [] st = "WaybillStates:overuse_hours" ->
           {Btn(BtnSkip), Num(-100), Num(100), Garbage}
      [] st = "WaybillStates:overuse_manual" -> {Btn(BtnSkip), Num(-100), Num(100), Garbage}
      [] st = "WaybillStates:economy" -> {Btn(BtnSkip), Num(-100), Num(100), Garbage}
      [] st = "WaybillStates:fuel_end_choice" ->
           {Btn(BtnFuelAuto), Btn(BtnFuelManual), Btn(BtnRefuel), Garbage}
      [] st = "WaybillStates:fuel_refuel" -> {Num(-100), Num(100), Garbage}
      [] st = "WaybillStates:fuel_end_manual" -> {Num(-100), Num(100), Garbage}
      [] OTHER -> {}

\* Messages that leave a conversation, and buttons that begin one.
LeaveMessages == {Cmd("/start"), Cmd("/cancel"), Btn(BtnCancel), Btn(BtnBack),
                  Btn(BtnBackMenu)}

FlowButtons == {BtnSearch, BtnAdd, BtnDelete, BtnNewWaybill}

\* Commands and buttons that only show something.
InfoMessages == {Cmd("/help"), Cmd("/stats"), Cmd("/info"), Btn(BtnStats),
                 Btn(BtnInfo), Btn(BtnVehicles), Btn(BtnList), Num(100), Garbage}

\* The stages at which the users press a menu button instead of answering.
JumpStages == {"WaybillStates:start_time", "AddVehicleStates:fuel_rate"}

(***************************************************************************)
(* str.upper(), str.strip() and the LIKE '%term%' match, on sequences of   *)
(* characters.                                                             *)
(***************************************************************************)
UpperChar(c) ==
    CASE c = "a" -> "A" [] c = "b" -> "B" [] c = "c" -> "C" [] c = "d" -> "D"
      [] c = "x" -> "X" [] c = "z" -> "Z" [] OTHER -> c

Upper(s) == [i \in DOMAIN s |-> UpperChar(s[i])]

RECURSIVE StripLeft(_)
StripLeft(s) == IF s # <<>> /\ Head(s) = " " THEN StripLeft(Tail(s)) ELSE s

RECURSIVE StripRight(_)
StripRight(s) ==
    IF s # <<>> /\ s[Len(s)] = " " THEN StripRight(SubSeq(s, 1, Len(s) - 1)) ELSE s

Strip(s) == StripRight(StripLeft(s))

Contains(s, t) ==
    \E i \in 1..(Len(s) - Len(t) + 1) : SubSeq(s, i, i + Len(t) - 1) = t

(***************************************************************************)
(* The session data dict: a function from the keys present to values.      *)
(***************************************************************************)
NoData == <<>>

Has(d, k) == k \in DOMAIN d

Get(d, k, default) == IF k \in DOMAIN d THEN d[k] ELSE default

Update(d, upd) == upd @@ d

(***************************************************************************)
(* Helper functions (lines 629-659).                                       *)
(***************************************************************************)
\* Faulty variant of calculate_hours: an end before the start is not moved to
\* the next day.
calculate_hours_of_one_day(start_time, end_time) ==
    IF end_time < start_time THEN 0 - (((start_time - end_time) * 100 + 30) \div 60)
    ELSE ((end_time - start_time) * 100 + 30) \div 60

\* Both times in minutes; the result in hundredths of an hour, as
\* round(seconds / 3600, 2) gives it (no minute count falls on a tie).
calculate_hours(start_time, end_time) ==
    LET end == IF end_time < start_time THEN end_time + 1440 ELSE end_time
    IN  ((end - start_time) * 100 + 30) \div 60

validate_time(m) == m.kind = "time"

validate_number(m) == m.kind = "num"

(***************************************************************************)
(* class Database (lines 194-485).  A vehicle row is a record; a waybill   *)
(* row is a function from the columns that hold a value (a column absent   *)
(* from the domain is NULL).  A missing return value (None) of an id is 0. *)
(***************************************************************************)
VehicleRow(id, number, fuel_rate, idle_rate) ==
    [id |-> id, number |-> number, fuel_rate |-> fuel_rate, idle_rate |-> idle_rate]

\* Faulty variant of VehicleConstraints: number is not declared UNIQUE.
VehicleConstraintsWithoutUnique(tbl, row) ==
    /\ row.fuel_rate > 0 /\ row.fuel_rate <= 500
    /\ row.idle_rate > 0 /\ row.idle_rate <= 1000

\* The UNIQUE and CHECK constraints of CREATE TABLE vehicles.
VehicleConstraints(tbl, row) ==
    /\ \A v \in tbl : v.number # row.number
    /\ row.fuel_rate > 0 /\ row.fuel_rate <= 500
    /\ row.idle_rate > 0 /\ row.idle_rate <= 1000

add_vehicle(number, fuel_rate, idle_rate) ==
    LET row == VehicleRow(nextVehicleId, Upper(number), fuel_rate, idle_rate)
    IN  IF VehicleConstraints(vehicles, row)
        THEN [id |-> row.id, v |-> vehicles \cup {row}, nv |-> nextVehicleId + 1]
        ELSE [id |-> 0, v |-> vehicles, nv |-> nextVehicleId]

get_vehicles == vehicles

\* The rows of SELECT ... WHERE id = ? (none or one).
get_vehicle(vehicle_id) == {v \in vehicles : v.id = vehicle_id}

get_vehicle_by_number(number) == {v \in vehicles : v.number = Upper(number)}

search_vehicles(search_term) ==
    {v \in vehicles : Contains(v.number, Upper(search_term))}

\* Faulty variant of delete_vehicle: the rows of the vehicle's waybills stay
\* (foreign keys not enforced on the connection).
delete_vehicle_without_cascade(vehicle_id) ==
    IF \E v \in vehicles : v.id = vehicle_id
    THEN [ok |-> TRUE,
          v |-> {v \in vehicles : v.id # vehicle_id},
          w |-> waybills]
    ELSE [ok |-> FALSE, v |-> vehicles, w |-> waybills]

\* ON DELETE CASCADE with PRAGMA foreign_keys = ON.
delete_vehicle(vehicle_id) ==
    IF \E v \in vehicles : v.id = vehicle_id
    THEN [ok |-> TRUE,
          v |-> {v \in vehicles : v.id # vehicle_id},
          w |-> {w \in waybills : w["vehicle_id"] # vehicle_id}]
    ELSE [ok |-> FALSE, v |-> vehicles, w |-> waybills]

\* Faulty variant of get_last_waybill: the rows of every user are looked at.
get_last_waybill_of_any_user(vehicle_id, user_id) ==
    LET mine == {w \in waybills : w["vehicle_id"] = vehicle_id}
    IN  {w \in mine :
           \A x \in mine : x["date"] < w["date"]
                            \/ (x["date"] = w["date"] /\ x["id"] <= w["id"])}

\* ORDER BY date DESC, id DESC LIMIT 1 (none or one row).
get_last_waybill(vehicle_id, user_id) ==
    LET mine == {w \in waybills :
                   w["vehicle_id"] = vehicle_id /\ w["user_id"] = user_id}
    IN  {w \in mine :
           \A x \in mine : x["date"] < w["date"]
                            \/ (x["date"] = w["date"] /\ x["id"] <= w["id"])}

\* COUNT(*) over the rows of the vehicle and the user dated within the last
\* `days` days; the other aggregates are sums over the same rows.
get_statistics(vehicle_id, user_id, days) ==
    [trips |-> Cardinality({w \in waybills :
                              /\ w["vehicle_id"] = vehicle_id
                              /\ w["user_id"] = user_id
                              /\ w["date"] >= today - days})]

\* The values bound to the INSERT; a key the dict lacks binds NULL unless
\* data.get names a default.
WaybillColumns ==
    [vehicle_id |-> <<"vehicle_id">>, user_id |-> <<"user_id">>,
     date |-> <<"date">>, start_time |-> <<"start_time">>,
     end_time |-> <<"end_time">>, total_hours |-> <<"hours">>,
     odo_start |-> <<"odo_start">>, odo_end |-> <<"odo_end">>,
     distance |-> <<"distance">>, fuel_start |-> <<"fuel_start">>,
     fuel_end |-> <<"fuel_end">>, fuel_refuel |-> <<"fuel_refuel", 0>>,
     fuel_norm |-> <<"fuel_norm">>, fuel_actual |-> <<"fuel_actual">>,
     overuse |-> <<"overuse", 0>>, overuse_hours |-> <<"overuse_hours", 0>>,
     overuse_calculated |-> <<"overuse_calculated", 0>>,
     economy |-> <<"economy", 0>>, fuel_rate |-> <<"fuel_rate">>,
     fuel_end_manual |-> <<"fuel_end_manual", 0>>]

WaybillRow(id, d) ==
    LET cols == WaybillColumns
        bound == {c \in DOMAIN cols : Has(d, cols[c][1]) \/ Len(cols[c]) = 2}
    IN  [c \in bound \cup {"id"} |->
           IF c = "id" THEN id
           ELSE IF Has(d, cols[c][1]) THEN d[cols[c][1]]
           ELSE cols[c][2]]

\* data['vehicle_id'] and data['user_id'] raise KeyError when missing; the
\* FOREIGN KEY needs the vehicle row; io_error is any other sqlite3 error.
\* Every exception is caught and None returned.
\* Faulty variant of save_waybill: a failed write leaves its row behind.
save_waybill_partial(d, io_error) ==
    [id |-> IF io_error THEN 0 ELSE nextWaybillId,
     w |-> waybills \cup {WaybillRow(nextWaybillId, d)},
     nw |-> nextWaybillId + 1]

\* Faulty variant of save_waybill: INSERT OR REPLACE on the vehicle, the user
\* and the date.
save_waybill_replacing(d, io_error) ==
    IF /\ ~io_error
       /\ Has(d, "vehicle_id") /\ Has(d, "user_id")
       /\ \E v \in vehicles : v.id = d["vehicle_id"]
    THEN [id |-> nextWaybillId,
          w |-> {w \in waybills : \/ w["vehicle_id"] # d["vehicle_id"]
                                   \/ w["user_id"] # d["user_id"]
                                   \/ w["date"] # d["date"]}
                  \cup {WaybillRow(nextWaybillId, d)},
          nw |-> nextWaybillId + 1]
    ELSE [id |-> 0, w |-> waybills, nw |-> nextWaybillId]

\* Faulty variant of save_waybill: the foreign key is not enforced.
save_waybill_without_foreign_key(d, io_error) ==
    IF ~io_error /\ Has(d, "vehicle_id") /\ Has(d, "user_id")
    THEN [id |-> nextWaybillId,
          w |-> waybills \cup {WaybillRow(nextWaybillId, d)},
          nw |-> nextWaybillId + 1]
    ELSE [id |-> 0, w |-> waybills, nw |-> nextWaybillId]

save_waybill(d, io_error) ==
    IF /\ ~io_error
       /\ Has(d, "vehicle_id") /\ Has(d, "user_id")
       /\ \E v \in vehicles : v.id = d["vehicle_id"]
    THEN [id |-> nextWaybillId,
          w |-> waybills \cup {WaybillRow(nextWaybillId, d)},
          nw |-> nextWaybillId + 1]
    ELSE [id |-> 0, w |-> waybills, nw |-> nextWaybillId]

(***************************************************************************)
(* The FSM session of a user (FSMContext over MemoryStorage).              *)
(***************************************************************************)
\* Faulty variant of SessionKey: one session for all users.
SessionKeyShared(u) == "u1"

SessionKey(u) == u

St(u) == state[SessionKey(u)]

Data(u) == data[SessionKey(u)]

(***************************************************************************)
(* What a handler does with a message.  Everything up to its               *)
(* `await message.answer(...)` is one uninterrupted step: s1 and d1 are    *)
(* the session after it, v, nv, w, nw the tables after it, r the replies   *)
(* sent.  k is what the handler still does after the answer returns:       *)
(* nothing, state.clear(), or state.set_state(st).                         *)
(***************************************************************************)
Nop == [op |-> "nop", st |-> None]
Clear == [op |-> "clear", st |-> None]
SetState(st) == [op |-> "set", st |-> st]

Out(u) ==
    [s1 |-> St(u), d1 |-> Data(u), k |-> Nop, r |-> <<>>,
     v |-> vehicles, nv |-> nextVehicleId, w |-> waybills, nw |-> nextWaybillId]

Reply(u, tag) == [Out(u) EXCEPT !.r = <<tag>>]

\* answer, then state.set_state(st)
ReplyThenSet(u, tag, st) == [Out(u) EXCEPT !.r = <<tag>>, !.k = SetState(st)]

\* answer, then state.clear()
ReplyThenClear(u, tag) == [Out(u) EXCEPT !.r = <<tag>>, !.k = Clear]

\* state.clear(), then answer
ClearThenReply(u, tag) ==
    [Out(u) EXCEPT !.s1 = None, !.d1 = NoData, !.r = <<tag>>]

\* state.update_data(...), answer, then state.set_state(st)
UpdateReplyThenSet(u, upd, tag, st) ==
    [Out(u) EXCEPT !.d1 = Update(Data(u), upd), !.r = <<tag>>, !.k = SetState(st)]

\* The handler raised (a KeyError): aiogram logs it, nothing is sent.
Raised(u) == Out(u)

(***************************************************************************)
(* save_and_show_waybill (lines 661-707), on the dict d just stored.       *)
(***************************************************************************)
\* Faulty variant of fuel_consumption: the division is not guarded.
fuel_consumption_unguarded(d) ==
    LET distance == Get(d, "distance", 0)
        fuel_actual == Get(d, "fuel_actual", 0)
    IN  IF distance = 0 THEN [raised |-> TRUE, value |-> 0]
        ELSE [raised |-> FALSE, value |-> (fuel_actual * 10000) \div distance]

\* fuel_actual / distance * 100 if distance > 0 else 0: liters per 100 km, in
\* hundredths; `raised` tells a ZeroDivisionError.
fuel_consumption(d) ==
    LET distance == Get(d, "distance", 0)
        fuel_actual == Get(d, "fuel_actual", 0)
    IN  IF distance > 0
        THEN [raised |-> FALSE, value |-> (fuel_actual * 10000) \div distance]
        ELSE [raised |-> FALSE, value |-> 0]

\* Faulty variant of save_and_show_waybill: the session is kept when the
\* save failed.
save_and_show_waybill_keeping(u, d, io_error) ==
    LET saved == save_waybill(Update(d, [date |-> today]), io_error)
    IN  [Out(u) EXCEPT !.d1 = d, !.w = saved.w, !.nw = saved.nw,
                       !.r = IF saved.id # 0 THEN <<"saved">> ELSE <<"save_failed">>,
                       !.k = IF saved.id # 0 THEN Clear ELSE Nop]

\* The summary is sent and the session cleared unless the figure of the
\* summary raises, which leaves the row stored and the handler unfinished.
save_and_show_waybill(u, d, io_error) ==
    LET saved == save_waybill(Update(d, [date |-> today]), io_error)
        raised == saved.id # 0 /\ fuel_consumption(d).raised
    IN  [Out(u) EXCEPT !.d1 = d, !.w = saved.w, !.nw = saved.nw,
                       !.r = IF raised THEN <<>>
                             ELSE IF saved.id # 0 THEN <<"saved">>
                             ELSE <<"save_failed">>,
                       !.k = IF raised THEN Nop ELSE Clear]

(***************************************************************************)
(* Commands and menus (lines 713-866).                                     *)
(***************************************************************************)
cmd_start(u, m) == ClearThenReply(u, "start_menu")

cmd_help(u, m) == Reply(u, "help")

\* Faulty variant of cmd_cancel: the reply without state.clear().
cmd_cancel_keeping(u, m) == Reply(u, "cancelled")

cmd_cancel(u, m) ==
    LET tag == IF m.str = BtnBackMenu THEN "main_menu"
               ELSE IF m.str = BtnBack THEN "vehicles_menu"
               ELSE "cancelled"
    IN  IF St(u) # None THEN ClearThenReply(u, tag) ELSE Reply(u, tag)

\* Faulty variant of cmd_stats: the conversation is ended first.
cmd_stats_clearing(u, m) == ClearThenReply(u, "stats")

cmd_stats(u, m) == Reply(u, "stats")

cmd_info(u, m) == Reply(u, "info")

vehicles_menu(u, m) == Reply(u, "vehicles_menu")

list_vehicles(u, m) ==
    IF get_vehicles = {} THEN Reply(u, "no_vehicles") ELSE Reply(u, "vehicles_list")

(***************************************************************************)
(* Search (lines 869-914).                                                 *)
(***************************************************************************)
search_vehicle_start(u, m) ==
    ReplyThenSet(u, "ask_search_term", "SearchVehicleStates:search_term")

search_vehicle_process(u, m) ==
    LET search_term == Strip(m.chars)
    IN  IF m = Btn(BtnCancel) THEN ClearThenReply(u, "search_cancelled")
        ELSE IF Len(search_term) < 2 THEN Reply(u, "err_search_short")
        ELSE IF search_vehicles(search_term) = {}
             THEN ReplyThenClear(u, "search_nothing_found")
        ELSE ReplyThenClear(u, "search_results")

(***************************************************************************)
(* Add vehicle (lines 917-1019).                                           *)
(***************************************************************************)
add_vehicle_start(u, m) == ReplyThenSet(u, "ask_number", "AddVehicleStates:number")

add_vehicle_number(u, m) ==
    LET number == Upper(Strip(m.chars))
    IN  IF m = Btn(BtnCancel) THEN ClearThenReply(u, "add_cancelled")
        ELSE IF Len(number) < 3 THEN Reply(u, "err_number_short")
        ELSE IF get_vehicle_by_number(number) # {}
             THEN Reply(u, "err_vehicle_exists")
        ELSE UpdateReplyThenSet(u, [number |-> number], "ask_fuel_rate",
                                "AddVehicleStates:fuel_rate")

\* Faulty variant of add_vehicle_fuel_rate: the vehicle is stored as soon as
\* its fuel rate is known.
add_vehicle_fuel_rate_storing(u, m) ==
    IF m = Btn(BtnCancel) THEN ClearThenReply(u, "add_cancelled")
    ELSE IF ~validate_number(m) THEN Reply(u, "err_number_format")
    ELSE IF ~(MinFuelRate <= m.num /\ m.num <= MaxFuelRate)
         THEN Reply(u, "err_fuel_rate_range")
    ELSE LET added == add_vehicle(Get(Data(u), "number", <<>>), m.num, MinIdleRate)
         IN  [UpdateReplyThenSet(u, [fuel_rate |-> m.num], "ask_idle_rate",
                                 "AddVehicleStates:idle_rate")
                EXCEPT !.v = added.v, !.nv = added.nv]

add_vehicle_fuel_rate(u, m) ==
    IF m = Btn(BtnCancel) THEN ClearThenReply(u, "add_cancelled")
    ELSE IF ~validate_number(m) THEN Reply(u, "err_number_format")
    ELSE IF ~(MinFuelRate <= m.num /\ m.num <= MaxFuelRate)
         THEN Reply(u, "err_fuel_rate_range")
    ELSE UpdateReplyThenSet(u, [fuel_rate |-> m.num], "ask_idle_rate",
                            "AddVehicleStates:idle_rate")

add_vehicle_idle_rate(u, m) ==
    IF m = Btn(BtnCancel) THEN ClearThenReply(u, "add_cancelled")
    ELSE IF ~validate_number(m) THEN Reply(u, "err_number_format")
    ELSE IF ~(MinIdleRate <= m.num /\ m.num <= MaxIdleRate)
         THEN Reply(u, "err_idle_rate_range")
    ELSE IF ~(Has(Data(u), "number") /\ Has(Data(u), "fuel_rate")) THEN Raised(u)
    ELSE LET added == add_vehicle(Data(u)["number"], Data(u)["fuel_rate"], m.num)
         IN  [Out(u) EXCEPT !.v = added.v, !.nv = added.nv,
                            !.r = IF added.id # 0 THEN <<"vehicle_added">>
                                  ELSE <<"vehicle_add_failed">>,
                            !.k = Clear]

(***************************************************************************)
(* Delete vehicle (lines 1022-1114).                                       *)
(***************************************************************************)
delete_vehicle_start(u, m) ==
    IF get_vehicles = {} THEN Reply(u, "no_vehicles_to_delete")
    ELSE UpdateReplyThenSet(u, [vehicles |-> get_vehicles], "ask_vehicle_to_delete",
                            "DeleteVehicleStates:select_vehicle")

\* The vehicle of the list kept in the session whose number is the button's.
FindVehicle(d, m) ==
    {v \in Get(d, "vehicles", {}) : v.number = Strip(m.chars)}

delete_vehicle_select(u, m) ==
    LET found == FindVehicle(Data(u), m)
    IN  IF found = {} THEN ReplyThenClear(u, "vehicle_not_found")
        ELSE LET vehicle == CHOOSE v \in found : TRUE
             IN  UpdateReplyThenSet(u, [vehicle_id |-> vehicle.id,
                                        vehicle_number |-> vehicle.number],
                                    "ask_confirm_delete",
                                    "DeleteVehicleStates:confirm_delete")

delete_vehicle_confirm(u, m) ==
    LET deleted == delete_vehicle(Get(Data(u), "vehicle_id", 0))
    IN  [Out(u) EXCEPT !.v = deleted.v, !.w = deleted.w,
                       !.r = IF deleted.ok THEN <<"vehicle_deleted">>
                             ELSE <<"vehicle_delete_failed">>,
                       !.k = Clear]

\* Faulty variant of delete_vehicle_cancel: declining deletes all the same.
delete_vehicle_cancel_deleting(u, m) ==
    LET deleted == delete_vehicle(Get(Data(u), "vehicle_id", 0))
    IN  [Out(u) EXCEPT !.v = deleted.v, !.w = deleted.w,
                       !.r = <<"delete_cancelled">>, !.k = Clear]

delete_vehicle_cancel(u, m) == ReplyThenClear(u, "delete_cancelled")

(***************************************************************************)
(* New waybill (lines 1120-1705).                                          *)
(***************************************************************************)
new_waybill(u, m) ==
    IF get_vehicles = {} THEN Reply(u, "no_vehicles")
    ELSE UpdateReplyThenSet(u, [vehicles |-> get_vehicles], "ask_vehicle",
                            "WaybillStates:vehicle_selected")

waybill_vehicle_selected(u, m) ==
    LET found == FindVehicle(Data(u), m)
    IN  IF found = {} THEN ReplyThenClear(u, "vehicle_not_found")
        ELSE LET vehicle == CHOOSE v \in found : TRUE
                 info == get_vehicle(vehicle.id)
             IN  IF info = {} THEN ReplyThenClear(u, "vehicle_info_error")
                 ELSE LET vehicle_info == CHOOSE v \in info : TRUE
                          d == Update(Data(u),
                                      [vehicle_id |-> vehicle_info.id,
                                       vehicle_number |-> vehicle_info.number,
                                       fuel_rate |-> vehicle_info.fuel_rate,
                                       idle_rate |-> vehicle_info.idle_rate,
                                       user_id |-> u])
                          lasts == get_last_waybill(vehicle_info.id, u)
                      IN  IF lasts # {}
                          THEN LET last_waybill == CHOOSE w \in lasts : TRUE
                               IN  [Out(u) EXCEPT
                                      !.d1 = Update(d,
                                               [previous_odo |-> last_waybill["odo_end"],
                                                previous_fuel |-> last_waybill["fuel_end"],
                                                previous_date |-> last_waybill["date"]]),
                                      !.r = <<"ask_initial_data">>,
                                      !.k = SetState("WaybillStates:initial_data_choice")]
                          ELSE [Out(u) EXCEPT
                                  !.d1 = d, !.r = <<"ask_start_time">>,
                                  !.k = SetState("WaybillStates:start_time")]

waybill_start_time(u, m) ==
    IF m = Btn(BtnCancel) THEN ClearThenReply(u, "cancelled")
    ELSE IF ~validate_time(m) THEN Reply(u, "err_time_format")
    ELSE UpdateReplyThenSet(u, [start_time |-> m.num], "ask_odo_start",
                            "WaybillStates:odo_start")

waybill_odo_start(u, m) ==
    IF m = Btn(BtnCancel) THEN ClearThenReply(u, "cancelled")
    ELSE IF ~validate_number(m) THEN Reply(u, "err_number_format")
    ELSE IF m.num < 0 THEN Reply(u, "err_negative")
    ELSE UpdateReplyThenSet(u, [odo_start |-> m.num], "ask_fuel_start",
                            "WaybillStates:fuel_start")

waybill_fuel_start(u, m) ==
    IF m = Btn(BtnCancel) THEN ClearThenReply(u, "cancelled")
    ELSE IF ~validate_number(m) THEN Reply(u, "err_number_format")
    ELSE IF m.num < 0 THEN Reply(u, "err_negative")
    ELSE UpdateReplyThenSet(u, [fuel_start |-> m.num], "ask_end_time",
                            "WaybillStates:end_time")

\* Faulty variant of waybill_end_time: a missing start time is not noticed.
waybill_end_time_unchecked(u, m) ==
    IF m = Btn(BtnCancel) THEN ClearThenReply(u, "cancelled")
    ELSE IF ~validate_time(m) THEN Reply(u, "err_time_format")
    ELSE UpdateReplyThenSet(u,
           [end_time |-> m.num,
            hours |-> IF Has(Data(u), "start_time")
                      THEN calculate_hours(Data(u)["start_time"], m.num)
                      ELSE 0],
           "ask_odo_end", "WaybillStates:odo_end")

waybill_end_time(u, m) ==
    IF m = Btn(BtnCancel) THEN ClearThenReply(u, "cancelled")
    ELSE IF ~validate_time(m) THEN Reply(u, "err_time_format")
    ELSE IF ~Has(Data(u), "start_time") THEN ReplyThenClear(u, "err_no_start_time")
    ELSE UpdateReplyThenSet(u,
           [end_time |-> m.num,
            hours |-> calculate_hours(Data(u)["start_time"], m.num)],
           "ask_odo_end", "WaybillStates:odo_end")

\* Faulty variant of waybill_odo_end: no comparison with odo_start.
waybill_odo_end_unchecked(u, m) ==
    LET odo_end == m.num
        odo_start == Get(Data(u), "odo_start", 0)
        distance == odo_end - odo_start
        fuel_rate == Get(Data(u), "fuel_rate", 0)
        fuel_norm == (distance * fuel_rate) \div 100
    IN  IF m = Btn(BtnCancel) THEN ClearThenReply(u, "cancelled")
        ELSE IF ~validate_number(m) THEN Reply(u, "err_number_format")
        ELSE UpdateReplyThenSet(u,
               [odo_end |-> odo_end, distance |-> distance, fuel_norm |-> fuel_norm],
               "ask_overuse_choice", "WaybillStates:overuse_choice")

\* Faulty variant of waybill_odo_end: the rate taken as liters per 100 km.
waybill_odo_end_per_100km(u, m) ==
    LET odo_end == m.num
        odo_start == Get(Data(u), "odo_start", 0)
        distance == odo_end - odo_start
        fuel_rate == Get(Data(u), "fuel_rate", 0)
        fuel_norm == ((distance * fuel_rate) \div 100) \div 100
    IN  IF m = Btn(BtnCancel) THEN ClearThenReply(u, "cancelled")
        ELSE IF ~validate_number(m) THEN Reply(u, "err_number_format")
        ELSE IF odo_end < odo_start THEN Reply(u, "err_odo_end_less")
        ELSE UpdateReplyThenSet(u,
               [odo_end |-> odo_end, distance |-> distance, fuel_norm |-> fuel_norm],
               "ask_overuse_choice", "WaybillStates:overuse_choice")

waybill_odo_end(u, m) ==
    LET odo_end == m.num
        odo_start == Get(Data(u), "odo_start", 0)
        distance == odo_end - odo_start
        fuel_rate == Get(Data(u), "fuel_rate", 0)
        fuel_norm == (distance * fuel_rate) \div 100
    IN  IF m = Btn(BtnCancel) THEN ClearThenReply(u, "cancelled")
        ELSE IF ~validate_number(m) THEN Reply(u, "err_number_format")
        ELSE IF odo_end < odo_start THEN Reply(u, "err_odo_end_less")
        ELSE UpdateReplyThenSet(u,
               [odo_end |-> odo_end, distance |-> distance, fuel_norm |-> fuel_norm],
               "ask_overuse_choice", "WaybillStates:overuse_choice")

waybill_initial_data_choice(u, m) ==
    IF m = Btn(BtnCancel) THEN ClearThenReply(u, "cancelled")
    ELSE IF m = Btn(BtnUsePrevious)
         THEN UpdateReplyThenSet(u,
                [odo_start |-> Get(Data(u), "previous_odo", 0),
                 fuel_start |-> Get(Data(u), "previous_fuel", 0)],
                "ask_start_time_reusing", "WaybillStates:start_time")
    ELSE IF m = Btn(BtnEnterManually)
         THEN ReplyThenSet(u, "ask_odo_start", "WaybillStates:odo_start")
    ELSE Reply(u, "err_choice")

waybill_overuse_choice(u, m) ==
    IF m = Btn(BtnCancel) THEN ClearThenReply(u, "cancelled")
    ELSE IF m = Btn(BtnOveruseIdle)
         THEN ReplyThenSet(u, "ask_overuse_hours", "WaybillStates:overuse_hours")
    ELSE IF m = Btn(BtnOveruseManual)
         THEN ReplyThenSet(u, "ask_overuse_manual", "WaybillStates:overuse_manual")
    ELSE IF m = Btn(BtnNoOveruse)
         THEN UpdateReplyThenSet(u,
                [overuse |-> 0, overuse_hours |-> 0, overuse_calculated |-> 0],
                "ask_economy", "WaybillStates:economy")
    ELSE Reply(u, "err_choice")

\* Faulty variant of waybill_overuse_hours: the hours are stored as liters.
waybill_overuse_hours_unscaled(u, m) ==
    IF m = Btn(BtnCancel) THEN ClearThenReply(u, "cancelled")
    ELSE IF m = Btn(BtnSkip)
         THEN UpdateReplyThenSet(u,
                [overuse_hours |-> 0, overuse_calculated |-> 0, overuse |-> 0],
                "ask_economy", "WaybillStates:economy")
    ELSE IF ~validate_number(m) THEN Reply(u, "err_number_format")
    ELSE IF m.num < 0 THEN Reply(u, "err_negative")
    ELSE UpdateReplyThenSet(u,
           [overuse_hours |-> m.num, overuse_calculated |-> 1, overuse |-> m.num],
           "ask_economy", "WaybillStates:economy")

waybill_overuse_hours(u, m) ==
    IF m = Btn(BtnCancel) THEN ClearThenReply(u, "cancelled")
    ELSE IF m = Btn(BtnSkip)
         THEN UpdateReplyThenSet(u,
                [overuse_hours |-> 0, overuse_calculated |-> 0, overuse |-> 0],
                "ask_economy", "WaybillStates:economy")
    ELSE IF ~validate_number(m) THEN Reply(u, "err_number_format")
    ELSE IF m.num < 0 THEN Reply(u, "err_negative")
    ELSE LET idle_rate == Get(Data(u), "idle_rate", 200)
         IN  UpdateReplyThenSet(u,
               [overuse_hours |-> m.num, overuse_calculated |-> 1,
                overuse |-> (m.num * idle_rate) \div 100],
               "ask_economy", "WaybillStates:economy")

\* Faulty variant of waybill_overuse_manual: the idle hours of an earlier
\* answer are left in the session.
waybill_overuse_manual_keeping_hours(u, m) ==
    IF m = Btn(BtnCancel) THEN ClearThenReply(u, "cancelled")
    ELSE IF ~validate_number(m) THEN Reply(u, "err_number_format")
    ELSE IF m.num < 0 THEN Reply(u, "err_negative")
    ELSE UpdateReplyThenSet(u, [overuse |-> m.num],
                            "ask_economy", "WaybillStates:economy")

waybill_overuse_manual(u, m) ==
    IF m = Btn(BtnCancel) THEN ClearThenReply(u, "cancelled")
    ELSE IF ~validate_number(m) THEN Reply(u, "err_number_format")
    ELSE IF m.num < 0 THEN Reply(u, "err_negative")
    ELSE UpdateReplyThenSet(u,
           [overuse |-> m.num, overuse_hours |-> 0, overuse_calculated |-> 0],
           "ask_economy", "WaybillStates:economy")

waybill_economy(u, m) ==
    IF m = Btn(BtnCancel) THEN ClearThenReply(u, "cancelled")
    ELSE IF m = Btn(BtnSkip)
         THEN UpdateReplyThenSet(u, [economy |-> 0], "ask_fuel_end_choice",
                                 "WaybillStates:fuel_end_choice")
    ELSE IF ~validate_number(m) THEN Reply(u, "err_number_format")
    ELSE IF m.num < 0 THEN Reply(u, "err_negative")
    ELSE UpdateReplyThenSet(u, [economy |-> m.num], "ask_fuel_end_choice",
                            "WaybillStates:fuel_end_choice")

\* Faulty variant of waybill_fuel_end_choice: a negative computed balance
\* is saved.
waybill_fuel_end_choice_unchecked(u, m, io_error) ==
    LET d == Data(u)
        fuel_actual == Get(d, "fuel_norm", 0) + Get(d, "overuse", 0)
                         - Get(d, "economy", 0)
        fuel_end == Get(d, "fuel_start", 0) - fuel_actual
    IN  IF m = Btn(BtnCancel) THEN ClearThenReply(u, "cancelled")
        ELSE IF m = Btn(BtnFuelAuto)
             THEN save_and_show_waybill(u,
                    Update(d, [fuel_actual |-> fuel_actual, fuel_end |-> fuel_end,
                               fuel_end_manual |-> 0]),
                    io_error)
        ELSE IF m = Btn(BtnFuelManual)
             THEN ReplyThenSet(u, "ask_fuel_end", "WaybillStates:fuel_end_manual")
        ELSE IF m = Btn(BtnRefuel)
             THEN ReplyThenSet(u, "ask_fuel_refuel", "WaybillStates:fuel_refuel")
        ELSE Reply(u, "err_choice")

waybill_fuel_end_choice(u, m, io_error) ==
    LET d == Data(u)
        fuel_actual == Get(d, "fuel_norm", 0) + Get(d, "overuse", 0)
                         - Get(d, "economy", 0)
        fuel_end == Get(d, "fuel_start", 0) - fuel_actual
    IN  IF m = Btn(BtnCancel) THEN ClearThenReply(u, "cancelled")
        ELSE IF m = Btn(BtnFuelAuto)
             THEN IF fuel_end < 0 THEN Reply(u, "warn_negative_balance")
                  ELSE save_and_show_waybill(u,
                         Update(d, [fuel_actual |-> fuel_actual, fuel_end |-> fuel_end,
                                    fuel_end_manual |-> 0]),
                         io_error)
        ELSE IF m = Btn(BtnFuelManual)
             THEN ReplyThenSet(u, "ask_fuel_end", "WaybillStates:fuel_end_manual")
        ELSE IF m = Btn(BtnRefuel)
             THEN ReplyThenSet(u, "ask_fuel_refuel", "WaybillStates:fuel_refuel")
        ELSE Reply(u, "err_choice")

waybill_fuel_refuel(u, m) ==
    IF m = Btn(BtnCancel) THEN ClearThenReply(u, "cancelled")
    ELSE IF ~validate_number(m) THEN Reply(u, "err_number_format")
    ELSE IF m.num < 0 THEN Reply(u, "err_negative")
    ELSE UpdateReplyThenSet(u, [fuel_refuel |-> m.num], "ask_fuel_end",
                            "WaybillStates:fuel_end_manual")

\* Faulty variant of waybill_fuel_end_manual: the typed balance is not
\* flagged as typed.
waybill_fuel_end_manual_unflagged(u, m, io_error) ==
    LET d == Data(u)
        fuel_end == m.num
        fuel_actual == Get(d, "fuel_start", 0) + Get(d, "fuel_refuel", 0) - fuel_end
    IN  IF m = Btn(BtnCancel) THEN ClearThenReply(u, "cancelled")
        ELSE IF ~validate_number(m) THEN Reply(u, "err_number_format")
        ELSE IF fuel_end < 0 THEN Reply(u, "err_negative")
        ELSE save_and_show_waybill(u,
               Update(d, [fuel_end |-> fuel_end, fuel_actual |-> fuel_actual]),
               io_error)

waybill_fuel_end_manual(u, m, io_error) ==
    LET d == Data(u)
        fuel_end == m.num
        fuel_actual == Get(d, "fuel_start", 0) + Get(d, "fuel_refuel", 0) - fuel_end
    IN  IF m = Btn(BtnCancel) THEN ClearThenReply(u, "cancelled")
        ELSE IF ~validate_number(m) THEN Reply(u, "err_number_format")
        ELSE IF fuel_end < 0 THEN Reply(u, "err_negative")
        ELSE save_and_show_waybill(u,
               Update(d, [fuel_end |-> fuel_end, fuel_actual |-> fuel_actual,
                          fuel_end_manual |-> 1]),
               io_error)

unknown_command(u, m) ==
    IF validate_number(m) THEN Reply(u, "unknown_number") ELSE Reply(u, "unknown_command")

(***************************************************************************)
(* The router: the first registered handler whose filters accept the       *)
(* message in the user's state (registration order = order in the file).   *)
(***************************************************************************)
Route(st, m) ==
    IF m.str = "/start" THEN "cmd_start"
    ELSE IF m.str = "/help" THEN "cmd_help"
    ELSE IF m.str = "/cancel" \/ m.str \in {BtnCancel, BtnBack, BtnBackMenu}
         THEN "cmd_cancel"
    ELSE IF m.str = "/stats" \/ m.str = BtnStats THEN "cmd_stats"
    ELSE IF m.str = "/info" \/ m.str = BtnInfo THEN "cmd_info"
    ELSE IF m.str = BtnVehicles THEN "vehicles_menu"
    ELSE IF m.str = BtnList THEN "list_vehicles"
    ELSE IF m.str = BtnSearch THEN "search_vehicle_start"
    ELSE IF st = "SearchVehicleStates:search_term" THEN "search_vehicle_process"
    ELSE IF m.str = BtnAdd THEN "add_vehicle_start"
    ELSE IF st = "AddVehicleStates:number" THEN "add_vehicle_number"
    ELSE IF st = "AddVehicleStates:fuel_rate" THEN "add_vehicle_fuel_rate"
    ELSE IF st = "AddVehicleStates:idle_rate" THEN "add_vehicle_idle_rate"
    ELSE IF m.str = BtnDelete THEN "delete_vehicle_start"
    ELSE IF st = "DeleteVehicleStates:select_vehicle" /\ m.kind = "veh"
         THEN "delete_vehicle_select"
    ELSE IF st = "DeleteVehicleStates:confirm_delete" /\ m.str = BtnYesDelete
         THEN "delete_vehicle_confirm"
    ELSE IF st = "DeleteVehicleStates:confirm_delete" /\ m.str = BtnNoDelete
         THEN "delete_vehicle_cancel"
    ELSE IF m.str = BtnNewWaybill THEN "new_waybill"
    ELSE IF st = "WaybillStates:vehicle_selected" /\ m.kind = "veh"
         THEN "waybill_vehicle_selected"
    ELSE IF st = "WaybillStates:start_time" THEN "waybill_start_time"
    ELSE IF st = "WaybillStates:odo_start" THEN "waybill_odo_start"
    ELSE IF st = "WaybillStates:fuel_start" THEN "waybill_fuel_start"
    ELSE IF st = "WaybillStates:end_time" THEN "waybill_end_time"
    ELSE IF st = "WaybillStates:odo_end" THEN "waybill_odo_end"
    ELSE IF st = "WaybillStates:initial_data_choice" THEN "waybill_initial_data_choice"
    ELSE IF st = "WaybillStates:overuse_choice" THEN "waybill_overuse_choice"
    ELSE IF st = "WaybillStates:overuse_hours" THEN "waybill_overuse_hours"
    ELSE IF st = "WaybillStates:overuse_manual" THEN "waybill_overuse_manual"
    ELSE IF st = "WaybillStates:economy" THEN "waybill_economy"
    ELSE IF st = "WaybillStates:fuel_end_choice" THEN "waybill_fuel_end_choice"
    ELSE IF st = "WaybillStates:fuel_refuel" THEN "waybill_fuel_refuel"
    ELSE IF st = "WaybillStates:fuel_end_manual" THEN "waybill_fuel_end_manual"
    ELSE "unknown_command"

(***************************************************************************)
(* Running a handler.  After its answer the handler goes on with k at      *)
(* once, or - when updates are handled as tasks - stays suspended in the   *)
(* answer while other messages are handled, and goes on in Resume.         *)
(***************************************************************************)
\* Faulty variant of After: state.clear() resets the stage and keeps the data.
AfterKeepingData(k, s1, d1) ==
    IF k.op = "clear" THEN [s |-> None, d |-> d1]
    ELSE IF k.op = "set" THEN [s |-> k.st, d |-> d1]
    ELSE [s |-> s1, d |-> d1]

After(k, s1, d1) ==
    IF k.op = "clear" THEN [s |-> None, d |-> NoData]
    ELSE IF k.op = "set" THEN [s |-> k.st, d |-> d1]
    ELSE [s |-> s1, d |-> d1]

\* The answers that stay in flight while further messages are handled.
SlowReplies == {<<"saved">>, <<"save_failed">>}

MaySuspend(u, o) ==
    IF handle_as_tasks /\ o.k.op # "nop" /\ Len(pending[u]) < MaxPending
         /\ o.r \in SlowReplies
    THEN {FALSE, TRUE}
    ELSE {FALSE}

Handle(u, h, o) ==
    /\ process.phase = "polling"
    /\ vehicles' = o.v
    /\ nextVehicleId' = o.nv
    /\ waybills' = o.w
    /\ nextWaybillId' = o.nw
    /\ last' = [user |-> u, handler |-> h, from |-> St(u), replies |-> o.r]
    /\ \E suspend \in MaySuspend(u, o) :
         LET a == IF suspend THEN [s |-> o.s1, d |-> o.d1] ELSE After(o.k, o.s1, o.d1)
         IN  /\ state' = [state EXCEPT ![SessionKey(u)] = a.s]
             /\ data' = [data EXCEPT ![SessionKey(u)] = a.d]
             /\ pending' = IF suspend
                           THEN [pending EXCEPT
                                   ![u] = Append(@, [handler |-> h, k |-> o.k,
                                                     replies |-> o.r])]
                           ELSE pending
    /\ UNCHANGED <<today, handle_as_tasks, process>>

\* A suspended handler of u goes on after its answer.
Resume(u) ==
    \E i \in DOMAIN pending[u] :
        LET p == pending[u][i]
            a == After(p.k, St(u), Data(u))
        IN  /\ state' = [state EXCEPT ![SessionKey(u)] = a.s]
            /\ data' = [data EXCEPT ![SessionKey(u)] = a.d]
            /\ pending' = [pending EXCEPT
                             ![u] = SubSeq(@, 1, i - 1) \o SubSeq(@, i + 1, Len(@))]
            /\ last' = [user |-> u, handler |-> "resume", from |-> St(u),
                        replies |-> <<>>]
            /\ UNCHANGED <<vehicles, nextVehicleId, waybills, nextWaybillId, today,
                           handle_as_tasks, process>>

(***************************************************************************)
(* The start of the process (lines 38-53 and 1735-1789): the check of       *)
(* BOT_TOKEN with exit(1); Bot, MemoryStorage, Dispatcher and Router;       *)
(* on_startup() with init_database(); dp.start_polling().                   *)
(***************************************************************************)
\* Faulty variant of Boot: no check of BOT_TOKEN.
BootUnchecked ==
    /\ \/ /\ process.phase = "import"
          /\ process' = [process EXCEPT !.phase = "created"]
       \/ /\ process.phase = "created"
          /\ process' = [process EXCEPT !.phase = "started"]
       \/ /\ process.phase = "started"
          /\ process' = [process EXCEPT !.phase = "polling"]
    /\ UNCHANGED <<vehicles, nextVehicleId, waybills, nextWaybillId, today, state,
                   data, pending, handle_as_tasks, last>>

Boot ==
    /\ \/ /\ process.phase = "import" /\ ~process.token
          /\ process' = [process EXCEPT !.phase = "exited", !.code = 1]
       \/ /\ process.phase = "import" /\ process.token
          /\ process' = [process EXCEPT !.phase = "created"]
       \/ /\ process.phase = "created"
          /\ process' = [process EXCEPT !.phase = "started"]
       \/ /\ process.phase = "started"
          /\ process' = [process EXCEPT !.phase = "polling"]
    /\ UNCHANGED <<vehicles, nextVehicleId, waybills, nextWaybillId, today, state,
                   data, pending, handle_as_tasks, last>>

\* datetime.now() moves to the next day.
NextDay ==
    /\ today < MaxDay
    /\ \A u \in Users : St(u) = None
    /\ today' = today + 1
    /\ UNCHANGED <<vehicles, nextVehicleId, waybills, nextWaybillId, state, data,
                   pending, handle_as_tasks, last, process>>

(***************************************************************************)
(* One action per handler.                                                 *)
(***************************************************************************)
On_cmd_start(u, m) ==
    /\ m.str \in {"/start"}
    /\ Route(St(u), m) = "cmd_start"
    /\ Handle(u, "cmd_start", cmd_start(u, m))

On_cmd_help(u, m) ==
    /\ m.str \in {"/help"}
    /\ Route(St(u), m) = "cmd_help"
    /\ Handle(u, "cmd_help", cmd_help(u, m))

On_cmd_cancel(u, m) ==
    /\ m.str \in {"/cancel", BtnCancel, BtnBack, BtnBackMenu}
    /\ Route(St(u), m) = "cmd_cancel"
    /\ Handle(u, "cmd_cancel", cmd_cancel(u, m))

On_cmd_stats(u, m) ==
    /\ m.str \in {"/stats", BtnStats}
    /\ Route(St(u), m) = "cmd_stats"
    /\ Handle(u, "cmd_stats", cmd_stats(u, m))

On_cmd_info(u, m) ==
    /\ m.str \in {"/info", BtnInfo}
    /\ Route(St(u), m) = "cmd_info"
    /\ Handle(u, "cmd_info", cmd_info(u, m))

On_vehicles_menu(u, m) ==
    /\ m.str \in {BtnVehicles}
    /\ Route(St(u), m) = "vehicles_menu"
    /\ Handle(u, "vehicles_menu", vehicles_menu(u, m))

On_list_vehicles(u, m) ==
    /\ m.str \in {BtnList}
    /\ Route(St(u), m) = "list_vehicles"
    /\ Handle(u, "list_vehicles", list_vehicles(u, m))

On_search_vehicle_start(u, m) ==
    /\ m.str \in {BtnSearch}
    /\ Route(St(u), m) = "search_vehicle_start"
    /\ Handle(u, "search_vehicle_start", search_vehicle_start(u, m))

On_search_vehicle_process(u, m) ==
    /\ St(u) = "SearchVehicleStates:search_term"
    /\ Route(St(u), m) = "search_vehicle_process"
    /\ Handle(u, "search_vehicle_process", search_vehicle_process(u, m))

On_add_vehicle_start(u, m) ==
    /\ m.str \in {BtnAdd}
    /\ Route(St(u), m) = "add_vehicle_start"
    /\ Handle(u, "add_vehicle_start", add_vehicle_start(u, m))

On_add_vehicle_number(u, m) ==
    /\ St(u) = "AddVehicleStates:number"
    /\ Route(St(u), m) = "add_vehicle_number"
    /\ Handle(u, "add_vehicle_number", add_vehicle_number(u, m))

On_add_vehicle_fuel_rate(u, m) ==
    /\ St(u) = "AddVehicleStates:fuel_rate"
    /\ Route(St(u), m) = "add_vehicle_fuel_rate"
    /\ Handle(u, "add_vehicle_fuel_rate", add_vehicle_fuel_rate(u, m))

On_add_vehicle_idle_rate(u, m) ==
    /\ St(u) = "AddVehicleStates:idle_rate"
    /\ Route(St(u), m) = "add_vehicle_idle_rate"
    /\ Handle(u, "add_vehicle_idle_rate", add_vehicle_idle_rate(u, m))

On_delete_vehicle_start(u, m) ==
    /\ m.str \in {BtnDelete}
    /\ Route(St(u), m) = "delete_vehicle_start"
    /\ Handle(u, "delete_vehicle_start", delete_vehicle_start(u, m))

On_delete_vehicle_select(u, m) ==
    /\ St(u) = "DeleteVehicleStates:select_vehicle"
    /\ Route(St(u), m) = "delete_vehicle_select"
    /\ Handle(u, "delete_vehicle_select", delete_vehicle_select(u, m))

On_delete_vehicle_confirm(u, m) ==
    /\ St(u) = "DeleteVehicleStates:confirm_delete"
    /\ Route(St(u), m) = "delete_vehicle_confirm"
    /\ Handle(u, "delete_vehicle_confirm", delete_vehicle_confirm(u, m))

On_delete_vehicle_cancel(u, m) ==
    /\ St(u) = "DeleteVehicleStates:confirm_delete"
    /\ Route(St(u), m) = "delete_vehicle_cancel"
    /\ Handle(u, "delete_vehicle_cancel", delete_vehicle_cancel(u, m))

On_new_waybill(u, m) ==
    /\ m.str \in {BtnNewWaybill}
    /\ Route(St(u), m) = "new_waybill"
    /\ Handle(u, "new_waybill", new_waybill(u, m))

On_waybill_vehicle_selected(u, m) ==
    /\ St(u) = "WaybillStates:vehicle_selected"
    /\ Route(St(u), m) = "waybill_vehicle_selected"
    /\ Handle(u, "waybill_vehicle_selected", waybill_vehicle_selected(u, m))

On_waybill_start_time(u, m) ==
    /\ St(u) = "WaybillStates:start_time"
    /\ Route(St(u), m) = "waybill_start_time"
    /\ Handle(u, "waybill_start_time", waybill_start_time(u, m))

On_waybill_odo_start(u, m) ==
    /\ St(u) = "WaybillStates:odo_start"
    /\ Route(St(u), m) = "waybill_odo_start"
    /\ Handle(u, "waybill_odo_start", waybill_odo_start(u, m))

On_waybill_fuel_start(u, m) ==
    /\ St(u) = "WaybillStates:fuel_start"
    /\ Route(St(u), m) = "waybill_fuel_start"
    /\ Handle(u, "waybill_fuel_start", waybill_fuel_start(u, m))

On_waybill_end_time(u, m) ==
    /\ St(u) = "WaybillStates:end_time"
    /\ Route(St(u), m) = "waybill_end_time"
    /\ Handle(u, "waybill_end_time", waybill_end_time(u, m))

On_waybill_odo_end(u, m) ==
    /\ St(u) = "WaybillStates:odo_end"
    /\ Route(St(u), m) = "waybill_odo_end"
    /\ Handle(u, "waybill_odo_end", waybill_odo_end(u, m))

On_waybill_initial_data_choice(u, m) ==
    /\ St(u) = "WaybillStates:initial_data_choice"
    /\ Route(St(u), m) = "waybill_initial_data_choice"
    /\ Handle(u, "waybill_initial_data_choice", waybill_initial_data_choice(u, m))

On_waybill_overuse_choice(u, m) ==
    /\ St(u) = "WaybillStates:overuse_choice"
    /\ Route(St(u), m) = "waybill_overuse_choice"
    /\ Handle(u, "waybill_overuse_choice", waybill_overuse_choice(u, m))

On_waybill_overuse_hours(u, m) ==
    /\ St(u) = "WaybillStates:overuse_hours"
    /\ Route(St(u), m) = "waybill_overuse_hours"
    /\ Handle(u, "waybill_overuse_hours", waybill_overuse_hours(u, m))

On_waybill_overuse_manual(u, m) ==
    /\ St(u) = "WaybillStates:overuse_manual"
    /\ Route(St(u), m) = "waybill_overuse_manual"
    /\ Handle(u, "waybill_overuse_manual", waybill_overuse_manual(u, m))

On_waybill_economy(u, m) ==
    /\ St(u) = "WaybillStates:economy"
    /\ Route(St(u), m) = "waybill_economy"
    /\ Handle(u, "waybill_economy", waybill_economy(u, m))

On_waybill_fuel_end_choice(u, m) ==
    /\ St(u) = "WaybillStates:fuel_end_choice"
    /\ Route(St(u), m) = "waybill_fuel_end_choice"
    /\ \E io_error \in BOOLEAN :
         Handle(u, "waybill_fuel_end_choice", waybill_fuel_end_choice(u, m, io_error))

On_waybill_fuel_refuel(u, m) ==
    /\ St(u) = "WaybillStates:fuel_refuel"
    /\ Route(St(u), m) = "waybill_fuel_refuel"
    /\ Handle(u, "waybill_fuel_refuel", waybill_fuel_refuel(u, m))

On_waybill_fuel_end_manual(u, m) ==
    /\ St(u) = "WaybillStates:fuel_end_manual"
    /\ Route(St(u), m) = "waybill_fuel_end_manual"
    /\ \E io_error \in BOOLEAN :
         Handle(u, "waybill_fuel_end_manual", waybill_fuel_end_manual(u, m, io_error))

On_unknown_command(u, m) ==
    /\ Route(St(u), m) = "unknown_command"
    /\ Handle(u, "unknown_command", unknown_command(u, m))

(***************************************************************************)
(* The environment of a run: which messages arrive.  A user answers the    *)
(* prompt of the stage, leaves, or - with no stage, or at a JumpStage -     *)
(* presses a button that begins a conversation.  A conversation is begun   *)
(* only while its table has room for one more row, and a user whose        *)
(* conversation would insert into a table that has reached the run's size  *)
(* (maxV vehicles, maxW waybills ever inserted) leaves it.                 *)
(***************************************************************************)
Begins(u) == IF u = "u1" THEN FlowButtons ELSE {BtnSearch, BtnDelete}

\* An environment gives the sizes of the run, the stages at which menu
\* buttons are pressed, and the answers typed in the stages it names (the
\* other stages are answered as StageInputs says).
Env(maxV, maxW) ==
    [maxV |-> maxV, maxW |-> maxW, beginW |-> MaxWaybillId,
     begins |-> [u \in Users |-> Begins(u)], alone |-> FALSE,
     inputs |-> <<>>, jumps |-> JumpStages]

(***************************************************************************)
(* The end of the waybill conversation: the vehicle idles at 2 or 3 l/h,   *)
(* and the user also ends a trip where it started, types a fuel balance    *)
(* above what the tank held, and presses a menu button in the last stage,  *)
(* after a refuel was entered.                                             *)
(***************************************************************************)
LateMaxVehicleId == 1
LateMaxWaybillId == 1

EnvLate ==
    [maxV |-> LateMaxVehicleId, maxW |-> LateMaxWaybillId, beginW |-> MaxWaybillId,
     begins |-> [u \in Users |-> Begins(u)], alone |-> FALSE,
     inputs |-> [st \in {"AddVehicleStates:idle_rate", "WaybillStates:odo_end",
                         "WaybillStates:fuel_end_manual"} |->
                   StageInputs(st)
                     \cup (CASE st = "AddVehicleStates:idle_rate" -> {Num(300)}
                             [] st = "WaybillStates:odo_end" -> {Num(100)}
                             [] st = "WaybillStates:fuel_end_manual" -> {Num(500)})],
     jumps |-> {"WaybillStates:fuel_end_manual"}]

(***************************************************************************)
(* A day's trip of a vehicle of 0.12 l/km and 2 l/h: 08:00 to 17:00, from  *)
(* 1000 km to 1150 km, 40 l in the tank, 1.5 idle hours.                   *)
(***************************************************************************)
EnvTrip ==
    [maxV |-> LateMaxVehicleId, maxW |-> LateMaxWaybillId, beginW |-> MaxWaybillId,
     begins |-> [u \in Users |-> Begins(u)], alone |-> FALSE,
     inputs |-> [st \in {"AddVehicleStates:fuel_rate", "WaybillStates:odo_start",
                         "WaybillStates:fuel_start", "WaybillStates:odo_end",
                         "WaybillStates:overuse_hours", "WaybillStates:economy"} |->
                   CASE st = "AddVehicleStates:fuel_rate" -> {Num(12), Num(1200), Garbage}
                     [] st = "WaybillStates:odo_start" -> {Num(100000), Garbage}
                     [] st = "WaybillStates:fuel_start" -> {Num(4000), Garbage}
                     [] st = "WaybillStates:odo_end" -> {Num(99900), Num(115000)}
                     [] st = "WaybillStates:overuse_hours" -> {Btn(BtnSkip), Num(150)}
                     [] st = "WaybillStates:economy" -> {Btn(BtnSkip), Num(0), Num(100)}],
     jumps |-> {}]

(***************************************************************************)
(* Two users adding vehicles: both type the plate AB1 (in either case) or  *)
(* CD2, so that one of them may store a plate between the other's number   *)
(* stage and idle_rate stage; the first user's waybills have no idle       *)
(* hours and no economy.                                                   *)
(***************************************************************************)
EnvAdders ==
    [maxV |-> MaxVehicleId, maxW |-> UsersMaxWaybillId, beginW |-> MaxWaybillId,
     begins |-> [u \in Users |-> IF u = "u1" THEN FlowButtons ELSE {BtnAdd}], alone |-> FALSE,
     inputs |-> [st \in {"AddVehicleStates:number", "WaybillStates:overuse_hours",
                         "WaybillStates:overuse_manual", "WaybillStates:economy",
                         "WaybillStates:fuel_refuel", "WaybillStates:fuel_end_manual"} |->
                   CASE st = "AddVehicleStates:number" ->
                          {Txt(<<"a", "b", "1", " ">>), Txt(<<"A", "B", "1">>),
                           Txt(<<"c", "d", "2">>), Garbage}
                     [] st \in {"WaybillStates:overuse_hours", "WaybillStates:economy"} ->
                          {Btn(BtnSkip)}
                     [] OTHER -> {Num(100)}],
     jumps |-> {}]

(***************************************************************************)
(* Two users recording trips of one vehicle on two days, one conversation  *)
(* at a time: trips end at 2 km or 3 km, a typed balance is 0.             *)
(***************************************************************************)
EnvDays ==
    [maxV |-> LateMaxVehicleId, maxW |-> MaxWaybillId, beginW |-> MaxWaybillId + 1,
     begins |-> [u \in Users |-> IF u = "u1" THEN FlowButtons ELSE {BtnNewWaybill}],
     alone |-> TRUE,
     inputs |-> [st \in {"WaybillStates:start_time", "WaybillStates:odo_start",
                         "WaybillStates:fuel_start", "WaybillStates:end_time",
                         "WaybillStates:odo_end", "WaybillStates:overuse_hours",
                         "WaybillStates:overuse_manual", "WaybillStates:economy",
                         "WaybillStates:fuel_refuel", "WaybillStates:fuel_end_manual"} |->
                   CASE st = "WaybillStates:start_time" -> {Time(480)}
                     [] st = "WaybillStates:end_time" -> {Time(1020)}
                     [] st = "WaybillStates:odo_start" -> {Num(100)}
                     [] st = "WaybillStates:fuel_start" -> {Num(300)}
                     [] st = "WaybillStates:odo_end" -> {Num(200), Num(300)}
                     [] st = "WaybillStates:fuel_end_manual" -> {Num(0)}
                     [] st = "WaybillStates:fuel_refuel" -> {Num(100)}
                     [] OTHER -> {Btn(BtnSkip)}],
     jumps |-> {}]

Inbox(u, E) ==
    LET st == St(u)
        fullV == nextVehicleId > E.maxV
        fullW == nextWaybillId > E.maxW
        begins == {Btn(b) : b \in E.begins[u]
                               \ ((IF fullV THEN {BtnAdd} ELSE {})
                                    \cup (IF nextWaybillId > E.beginW
                                            THEN {BtnNewWaybill} ELSE {}))}
        answers == IF \/ fullV /\ st = "AddVehicleStates:idle_rate"
                      \/ fullW /\ st \in {"WaybillStates:fuel_end_choice",
                                          "WaybillStates:fuel_end_manual"}
                   THEN {}
                   ELSE IF st \in DOMAIN E.inputs THEN E.inputs[st]
                   ELSE StageInputs(st)
    IN  IF E.alone /\ \E other \in Users \ {u} : St(other) # None THEN {}
        ELSE LeaveMessages \cup answers
               \cup (IF st = None \/ st \in E.jumps THEN begins ELSE {})

Deliver(us, E) ==
    \E u \in us :
        \/ \E m \in Inbox(u, E) : On_cmd_start(u, m)
        \/ \E m \in Inbox(u, E) : On_cmd_cancel(u, m)
        \/ \E m \in Inbox(u, E) : On_search_vehicle_start(u, m)
        \/ \E m \in Inbox(u, E) : On_search_vehicle_process(u, m)
        \/ \E m \in Inbox(u, E) : On_add_vehicle_start(u, m)
        \/ \E m \in Inbox(u, E) : On_add_vehicle_number(u, m)
        \/ \E m \in Inbox(u, E) : On_add_vehicle_fuel_rate(u, m)
        \/ \E m \in Inbox(u, E) : On_add_vehicle_idle_rate(u, m)
        \/ \E m \in Inbox(u, E) : On_delete_vehicle_start(u, m)
        \/ \E m \in Inbox(u, E) : On_delete_vehicle_select(u, m)
        \/ \E m \in Inbox(u, E) : On_delete_vehicle_confirm(u, m)
        \/ \E m \in Inbox(u, E) : On_delete_vehicle_cancel(u, m)
        \/ \E m \in Inbox(u, E) : On_new_waybill(u, m)
        \/ \E m \in Inbox(u, E) : On_waybill_vehicle_selected(u, m)
        \/ \E m \in Inbox(u, E) : On_waybill_start_time(u, m)
        \/ \E m \in Inbox(u, E) : On_waybill_odo_start(u, m)
        \/ \E m \in Inbox(u, E) : On_waybill_fuel_start(u, m)
        \/ \E m \in Inbox(u, E) : On_waybill_end_time(u, m)
        \/ \E m \in Inbox(u, E) : On_waybill_odo_end(u, m)
        \/ \E m \in Inbox(u, E) : On_waybill_initial_data_choice(u, m)
        \/ \E m \in Inbox(u, E) : On_waybill_overuse_choice(u, m)
        \/ \E m \in Inbox(u, E) : On_waybill_overuse_hours(u, m)
        \/ \E m \in Inbox(u, E) : On_waybill_overuse_manual(u, m)
        \/ \E m \in Inbox(u, E) : On_waybill_economy(u, m)
        \/ \E m \in Inbox(u, E) : On_waybill_fuel_end_choice(u, m)
        \/ \E m \in Inbox(u, E) : On_waybill_fuel_refuel(u, m)
        \/ \E m \in Inbox(u, E) : On_waybill_fuel_end_manual(u, m)

Show(us) ==
    \E u \in us :
        \/ \E m \in InfoMessages : On_cmd_help(u, m)
        \/ \E m \in InfoMessages : On_cmd_stats(u, m)
        \/ \E m \in InfoMessages : On_cmd_info(u, m)
        \/ \E m \in InfoMessages : On_vehicles_menu(u, m)
        \/ \E m \in InfoMessages : On_list_vehicles(u, m)
        \/ \E m \in InfoMessages : On_unknown_command(u, m)

InitSession ==
    /\ vehicles = {}
    /\ nextVehicleId = 1
    /\ waybills = {}
    /\ nextWaybillId = 1
    /\ today = 1
    /\ state = [u \in Users |-> None]
    /\ data = [u \in Users |-> NoData]
    /\ pending = [u \in Users |-> <<>>]
    /\ last = [user |-> "u1", handler |-> "none", from |-> None, replies |-> <<>>]

\* The process once dp.start_polling() runs: BOT_TOKEN was set.
Init ==
    /\ InitSession
    /\ handle_as_tasks = FALSE
    /\ process = [phase |-> "polling", token |-> TRUE, code |-> 0]

InitTasks ==
    /\ InitSession
    /\ handle_as_tasks = TRUE
    /\ process = [phase |-> "polling", token |-> TRUE, code |-> 0]

\* The process when the module is loaded: os.getenv("BOT_TOKEN") gives a
\* value or nothing, and no table has a row.
InitBoot ==
    /\ InitSession
    /\ handle_as_tasks = FALSE
    /\ process \in {[phase |-> "import", token |-> t, code |-> 0] : t \in BOOLEAN}

\* One user; every message is handled to completion.
Next ==
    \/ Deliver({"u1"}, Env(MaxVehicleId, MaxWaybillId))
    \/ Show({"u1"})

Spec == Init /\ [][Next]_vars

\* Two users; every message is handled to completion.
NextUsers == Deliver(Users, Env(MaxVehicleId, UsersMaxWaybillId))

SpecUsers == Init /\ [][NextUsers]_vars

\* One user; every message is handled in a task of its own.
NextTasks ==
    \/ Deliver(TaskUsers, Env(MaxVehicleId, MaxWaybillId))
    \/ \E u \in TaskUsers : Resume(u)

SpecTasks == InitTasks /\ [][NextTasks]_vars

\* One user in the second environment; every message is handled to completion.
NextLate == Deliver({"u1"}, EnvLate)

SpecLate == Init /\ [][NextLate]_vars

\* One user recording the day's trip; every message is handled to completion.
NextTrip == Deliver({"u1"}, EnvTrip)

SpecTrip == Init /\ [][NextTrip]_vars

\* Two users adding vehicles; every message is handled to completion.
NextAdders == Deliver(Users, EnvAdders)

SpecAdders == Init /\ [][NextAdders]_vars

\* One user recording the day's trip, leaving at 00:00, 08:00 or 23:59 and
\* returning at 00:00, 07:59, 08:00, 17:00 or 23:59.
NextClock ==
    Deliver({"u1"},
            [EnvTrip EXCEPT !.inputs =
               [st \in DOMAIN EnvTrip.inputs
                        \cup {"WaybillStates:start_time", "WaybillStates:end_time"} |->
                  CASE st = "WaybillStates:start_time" ->
                         {Time(0), Time(480), Time(1439), Garbage}
                    [] st = "WaybillStates:end_time" ->
                         {Time(0), Time(479), Time(480), Time(1020), Time(1439), Garbage}
                    [] OTHER -> EnvTrip.inputs[st]]])

SpecClock == Init /\ [][NextClock]_vars

\* The process from its start, then one user recording the day's trip.
SpecBoot == InitBoot /\ [][Boot \/ Deliver({"u1"}, EnvTrip)]_vars

\* Two users: the first as in SpecAdders, the second adding and deleting the
\* vehicle AB1 while the first records a trip of it.
SpecGone ==
    Init /\ [][Deliver(Users,
                       [EnvAdders EXCEPT
                          !.begins = [u \in Users |-> IF u = "u1" THEN FlowButtons
                                                      ELSE {BtnAdd, BtnDelete}],
                          !.inputs = [st \in DOMAIN EnvAdders.inputs |->
                                        IF st = "AddVehicleStates:number"
                                        THEN {Txt(<<"A", "B", "1">>), Garbage}
                                        ELSE EnvAdders.inputs[st]]])]_vars

\* Two users, one conversation at a time, and the date moving on.
NextDays ==
    \/ Deliver(Users, EnvDays)
    \/ NextDay

SpecDays == Init /\ [][NextDays]_vars

(***************************************************************************)
(* Properties.  `last` names the message handled last: its user, the       *)
(* handler that took it, the stage it arrived in and the replies sent.     *)
(***************************************************************************)
\* Replies that reject an answer as invalid for the stage.
InvalidInputReplies ==
    {<<"err_choice">>, <<"err_fuel_rate_range">>, <<"err_idle_rate_range">>,
     <<"err_negative">>, <<"err_number_format">>, <<"err_number_short">>,
     <<"err_odo_end_less">>, <<"err_search_short">>, <<"err_time_format">>,
     <<"err_vehicle_exists">>, <<"vehicle_not_found">>}

SaveReplies == {<<"saved">>, <<"save_failed">>}

SessionEmpty(u) == St(u) = None /\ Data(u) = NoData

\* C1: a cancel message (the cancel button or /cancel) received in any stage
\* of any flow leaves the user's session with no stage and no fields.
C1_CancelClearsSession ==
    (last.handler = "cmd_cancel" /\ last.from # None) => SessionEmpty(last.user)

\* A cancel arrived in the last stage of the waybill flow, all fields entered.
C1_CancelledAtFuelEnd ==
    /\ last.handler = "cmd_cancel"
    /\ last.replies = <<"cancelled">>
    /\ last.from = "WaybillStates:fuel_end_manual"
    /\ SessionEmpty(last.user)

\* C2: a message that is invalid for the stage it arrives in (wrong format,
\* out of range, none of the choices, a vehicle not in the offered list) is
\* answered with an error and leaves the stage and the fields unchanged.
C2_InvalidInputKeepsSession ==
    [][last'.replies \in InvalidInputReplies => state' = state /\ data' = data]_vars

\* C3: in the waybill flow a stage handler that accepts its input never ends
\* the session, except by the save step: no path of valid answers is aborted
\* before the save.
C3_ValidAnswersReachSave ==
    [][(/\ last'.from \in WaybillStates
        /\ last'.handler \notin {"cmd_cancel", "cmd_start"}
        /\ last'.replies \notin InvalidInputReplies
        /\ state'[last'.user] = None)
          => last'.replies \in SaveReplies]_vars

\* C4: once 'use previous day' has pre-filled odo_start and fuel_start, the
\* accepted start time does not lead to the odo_start or fuel_start stage.
C4_ReuseSkipsStartStages ==
    [][(/\ last.replies = <<"ask_start_time_reusing">>
        /\ last'.user = last.user
        /\ last'.handler = "waybill_start_time"
        /\ last'.replies \notin InvalidInputReplies)
          => state'[last'.user] \notin {"WaybillStates:odo_start",
                                        "WaybillStates:fuel_start"}]_vars

\* C5: after the save step, whether save_waybill returned an id or failed,
\* the user's session has no stage and no fields.
C5_SessionEmptyAfterSave ==
    last.replies \in SaveReplies => SessionEmpty(last.user)

\* The save step failed after the manual entry of the fuel end.
C5_FailedSaveFromManualEntry ==
    /\ last.replies = <<"save_failed">>
    /\ last.handler = "waybill_fuel_end_manual"
    /\ SessionEmpty(last.user)

\* C6: when the write of a waybill fails, save_waybill returns the failure
\* value, no row is added, the one reply is 'save failed', and the flow ends
\* (no stage, no fields) without a second write.
C6_FailedSaveAddsNothing ==
    [][last'.replies = <<"save_failed">>
         => /\ waybills' = waybills
            /\ nextWaybillId' = nextWaybillId
            /\ state'[last'.user] = None
            /\ data'[last'.user] = NoData]_vars

\* A save failed for user u1 whose vehicle another user had deleted.
C6_SaveFailedVehicleGone ==
    /\ last.replies = <<"save_failed">>
    /\ last.user = "u1"
    /\ vehicles = {}
    /\ nextVehicleId > 1
    /\ waybills = {}

\* C7: a handler runs to completion before another message of the same user
\* is handled, so a waybill is never inserted for a user while the handler
\* of that user's previous save has still to clear the session: the terminal
\* message sent twice persists one waybill.
C7_TerminalTwiceSavesOnce ==
    [][nextWaybillId' > nextWaybillId
         => \A i \in DOMAIN pending[last'.user] :
               pending[last'.user][i].replies # <<"saved">>]_vars

\* C8: handling a message of one user changes neither the stage nor the
\* fields of another user's session.
C8_OtherSessionsUnchanged ==
    [][\A b \in Users \ {last'.user} :
          state'[b] = state[b] /\ data'[b] = data[b]]_vars

\* Both users are in a conversation, and u1's message was handled last.
C8_BothInConversation ==
    /\ last.user = "u1"
    /\ last.handler = "waybill_odo_start"
    /\ St("u1") = "WaybillStates:fuel_start"
    /\ St("u2") = "DeleteVehicleStates:confirm_delete"
    /\ Has(Data("u2"), "vehicle_id")

\* C9: while a user is in a stage of a flow, a message leaves the stage
\* where it is, moves it to a stage of the same flow, or ends the flow; no
\* message (a menu button either) moves the user into another flow.
C9_StageStaysInFlow ==
    [][\A u \in Users :
          state[u] # None
            => state'[u] = None \/ Flow(state'[u]) = Flow(state[u])]_vars

C11_StoredQuantitiesNonNegative ==
    LET quantities == {"distance", "total_hours", "fuel_start", "fuel_end",
                       "fuel_refuel", "fuel_norm", "overuse", "overuse_hours",
                       "economy", "fuel_actual"}
    IN  \A w \in waybills :
            \A c \in quantities \cap DOMAIN w : w[c] >= 0

\* C12: every stored waybill, whichever way its fuel end was given
\* (computed, typed, typed after a refuel), has
\* fuel_actual = fuel_norm + overuse - economy.
C12_ActualIsNormPlusOveruseLessEconomy ==
    \A w \in waybills :
        w["fuel_actual"] = w["fuel_norm"] + w["overuse"] - w["economy"]

\* C13: every stored waybill satisfies the fuel balance
\* fuel_end = fuel_start + fuel_refuel - fuel_actual, whatever messages
\* came before the save.
C13_FuelBalanceOfStoredWaybills ==
    \A w \in waybills :
        w["fuel_end"] = w["fuel_start"] + w["fuel_refuel"] - w["fuel_actual"]

\* C14: when the fuel end is typed, the stored refuel is the typed balance
\* less the balance computed from the consumption, and 0 if that is negative:
\* fuel_refuel = max(0, fuel_end - (fuel_start - (fuel_norm + overuse - economy))).
C14_RefuelDerivedFromTypedFuelEnd ==
    \A w \in waybills :
        w["fuel_end_manual"] = 1 =>
            LET computed_end == w["fuel_start"]
                                  - (w["fuel_norm"] + w["overuse"] - w["economy"])
                refuel == w["fuel_end"] - computed_end
            IN  w["fuel_refuel"] = IF refuel > 0 THEN refuel ELSE 0

C16_OverusePathsMeetAtEconomy ==
    /\ last.replies = <<"ask_economy">> =>
         LET d == Data(last.user)
             typed == {m.num : m \in {x \in StageInputs("WaybillStates:overuse_manual") :
                                         x.kind = "num"}}
         IN  /\ St(last.user) = "WaybillStates:economy"
             /\ last.handler \in {"waybill_overuse_choice", "waybill_overuse_hours",
                                  "waybill_overuse_manual"}
             /\ last.handler = "waybill_overuse_choice" =>
                  d["overuse"] = 0 /\ d["overuse_hours"] = 0
                    /\ d["overuse_calculated"] = 0
             /\ last.handler = "waybill_overuse_manual" =>
                  d["overuse"] \in typed /\ d["overuse"] >= 0
                    /\ Get(d, "overuse_hours", 1) = 0
                    /\ Get(d, "overuse_calculated", 1) = 0
             /\ last.handler = "waybill_overuse_hours" =>
                  \/ /\ d["overuse_calculated"] = 1
                     /\ d["overuse"] * 100 = d["overuse_hours"] * d["idle_rate"]
                     /\ \A v \in vehicles :
                          v.id = d["vehicle_id"] => v.idle_rate = d["idle_rate"]
                  \/ /\ d["overuse_calculated"] = 0
                     /\ d["overuse_hours"] = 0 /\ d["overuse"] = 0
    /\ \A w \in waybills :
         /\ w["overuse_calculated"] = 1 =>
              \A v \in vehicles :
                 v.id = w["vehicle_id"]
                   => w["overuse"] * 100 = w["overuse_hours"] * v.idle_rate
         /\ w["overuse_calculated"] = 0 => w["overuse_hours"] = 0

\* A waybill with typed overuse is stored for a vehicle idling at 3 l/h,
\* after an attempt with idle hours was abandoned in the last stage; then
\* idle hours are answered in a new conversation.
C16_IdleHoursAfterTypedOveruse ==
    /\ last.handler = "waybill_overuse_hours"
    /\ last.replies = <<"ask_economy">>
    /\ Data("u1")["overuse"] = 300
    /\ \E w \in waybills :
         /\ w["overuse_calculated"] = 0 /\ w["overuse"] = 100
         /\ \E v \in vehicles : v.id = w["vehicle_id"] /\ v.idle_rate = 300

\* C17: each of the three answers to the fuel-end choice ends in the save:
\* the computed balance is saved at once, a typed balance is asked for
\* (directly, or after the refuel) and saved when it is accepted.  A stored
\* waybill has fuel_end_manual = 1 exactly when its fuel_end was typed and
\* 0 exactly when it was computed.
C17_FuelEndPathsMeetAtSave ==
    LET typed == {m.num : m \in {x \in StageInputs("WaybillStates:fuel_end_manual") :
                                    x.kind = "num"}}
    IN  /\ last.replies = <<"ask_fuel_refuel">> => St(last.user) = "WaybillStates:fuel_refuel"
        /\ last.replies = <<"ask_fuel_end">> =>
             St(last.user) = "WaybillStates:fuel_end_manual"
        /\ last.handler = "waybill_fuel_end_manual" =>
             last.replies \in SaveReplies
                                \cup {<<"err_number_format">>, <<"err_negative">>}
        /\ last.handler = "waybill_fuel_end_choice" =>
             \/ last.replies \in SaveReplies
             \/ St(last.user) = last.from
             \/ last.replies \in {<<"ask_fuel_refuel">>, <<"ask_fuel_end">>}
        /\ last.replies = <<"saved">> =>
             /\ last.handler \in {"waybill_fuel_end_choice", "waybill_fuel_end_manual"}
             /\ \E w \in waybills :
                  /\ w["id"] = nextWaybillId - 1
                  /\ w["fuel_end_manual"] =
                       IF last.handler = "waybill_fuel_end_manual" THEN 1 ELSE 0
        /\ \A w \in waybills :
             /\ w["fuel_end_manual"] \in {0, 1}
             /\ w["fuel_end_manual"] = 1 => w["fuel_end"] \in typed
             /\ w["fuel_end_manual"] = 0 =>
                  w["fuel_end"] = w["fuel_start"]
                                    - (w["fuel_norm"] + w["overuse"] - w["economy"])

\* A waybill with a computed balance is stored, and a second one was just
\* saved with a balance typed after a refuel.
C17_TypedAfterRefuelAndComputed ==
    /\ last.handler = "waybill_fuel_end_manual"
    /\ last.replies = <<"saved">>
    /\ \E w \in waybills :
         w["id"] = 2 /\ w["fuel_end_manual"] = 1 /\ w["fuel_refuel"] = 100
    /\ \E w \in waybills : w["id"] = 1 /\ w["fuel_end_manual"] = 0

\* C18: when the computed fuel balance is negative the user is warned,
\* nothing is stored and the stage stays at the fuel-end choice (the session
\* is kept); a waybill is saved from the choice only with a balance of at
\* least 0, and no stored waybill has a negative fuel_end.
C18_NegativeBalanceNeverStored ==
    [][LET u == last'.user
           d == data[u]
           balance == Get(d, "fuel_start", 0)
                        - (Get(d, "fuel_norm", 0) + Get(d, "overuse", 0)
                             - Get(d, "economy", 0))
       IN  /\ last'.replies = <<"warn_negative_balance">> =>
                /\ last'.handler = "waybill_fuel_end_choice"
                /\ balance < 0
                /\ waybills' = waybills /\ nextWaybillId' = nextWaybillId
                /\ state[u] = "WaybillStates:fuel_end_choice"
                /\ state' = state /\ data' = data
           /\ last'.handler = "waybill_fuel_end_choice" /\ last'.replies \in SaveReplies
                => balance >= 0
           /\ \A w \in waybills' : w["fuel_end"] >= 0]_vars

\* The warning was given for a vehicle whose idle hours took the
\* consumption above the fuel in the tank; a waybill is stored already.
C18_WarnedOfNegativeBalance ==
    /\ last.replies = <<"warn_negative_balance">>
    /\ St(last.user) = "WaybillStates:fuel_end_choice"
    /\ Data(last.user)["fuel_start"] = 300
    /\ Data(last.user)["fuel_norm"] + Data(last.user)["overuse"]
         - Data(last.user)["economy"] = 400
    /\ waybills # {}

\* C19: in each stage that asks for an optional quantity (idle hours, typed
\* overuse, economy) the skip button is accepted: the handler of the stage
\* takes it, stores 0 for the quantity and sets the next stage.
C19_SkipAcceptedAtOptionalStages ==
    \A u \in Users :
        LET skip == Btn(BtnSkip)
            hours == waybill_overuse_hours(u, skip)
            manual == waybill_overuse_manual(u, skip)
            economy == waybill_economy(u, skip)
        IN  /\ St(u) = "WaybillStates:overuse_hours" =>
                 /\ Route(St(u), skip) = "waybill_overuse_hours"
                 /\ hours.k = SetState("WaybillStates:economy")
                 /\ Get(hours.d1, "overuse_hours", 1) = 0
                 /\ Get(hours.d1, "overuse", 1) = 0
            /\ St(u) = "WaybillStates:overuse_manual" =>
                 /\ Route(St(u), skip) = "waybill_overuse_manual"
                 /\ manual.k = SetState("WaybillStates:economy")
                 /\ Get(manual.d1, "overuse", 1) = 0
            /\ St(u) = "WaybillStates:economy" =>
                 /\ Route(St(u), skip) = "waybill_economy"
                 /\ economy.k = SetState("WaybillStates:fuel_end_choice")
                 /\ Get(economy.d1, "economy", 1) = 0

C21_DeleteVehicleRemovesItsWaybills ==
    [][/\ \A v \in vehicles \ vehicles' :
            /\ last'.replies = <<"vehicle_deleted">>
            /\ \A w \in waybills' : w["vehicle_id"] # v.id
            /\ \A u \in Users :
                 /\ get_last_waybill(v.id, u)' = {}
                 /\ \A days \in 0..MaxDay : get_statistics(v.id, u, days)'.trips = 0
       /\ last'.replies = <<"vehicle_deleted">> => vehicles' # vehicles
       /\ \A w \in waybills' : \E v \in vehicles' : v.id = w["vehicle_id"]]_vars

\* The second user deleted a vehicle, and with it went the waybill the first
\* user had stored for it.
C21_DeletedVehicleHadWaybill ==
    /\ last.user = "u2"
    /\ last.replies = <<"vehicle_deleted">>
    /\ nextWaybillId = 2
    /\ waybills = {}
    /\ vehicles = {}

\* C22: an attempt to add a vehicle whose plate is stored already is
\* answered as 'already exists', never as a failure to add: also when the
\* plate was stored by another user after this user's number stage, so that
\* the attempt is the insert made at the idle_rate stage.
C22_DuplicatePlateAnsweredAsExisting ==
    [][\A u \in Users :
          /\ last'.user = u
          /\ last'.handler = "add_vehicle_idle_rate"
          /\ last'.replies \in {<<"vehicle_added">>, <<"vehicle_add_failed">>}
          /\ get_vehicle_by_number(Get(data[u], "number", <<>>)) # {}
          => last'.replies = <<"err_vehicle_exists">>]_vars

\* C23: however the add-vehicle conversations of the users interleave, no
\* two stored vehicles have the same upper-cased plate, and every stored
\* vehicle has its fuel_rate and idle_rate within the accepted bounds; a
\* rate outside them is rejected in its stage, which stays.
C23_PlatesUniqueAndRatesInBounds ==
    /\ \A v1, v2 \in vehicles :
         Upper(v1.number) = Upper(v2.number) => v1 = v2
    /\ \A v \in vehicles :
         /\ MinFuelRate <= v.fuel_rate /\ v.fuel_rate <= MaxFuelRate
         /\ MinIdleRate <= v.idle_rate /\ v.idle_rate <= MaxIdleRate
    /\ last.replies \in {<<"err_fuel_rate_range">>, <<"err_idle_rate_range">>} =>
         /\ St(last.user) = last.from
         /\ last.from = IF last.replies = <<"err_fuel_rate_range">>
                        THEN "AddVehicleStates:fuel_rate"
                        ELSE "AddVehicleStates:idle_rate"

\* The second user's insert of the plate AB1, which the first user stored
\* meanwhile, was refused.
C23_SecondInsertOfPlateRefused ==
    /\ \E v \in vehicles : v.number = <<"A", "B", "1">>
    /\ Get(data["u1"], "number", <<>>) = <<>>
    /\ last.user = "u2"
    /\ last.handler = "add_vehicle_idle_rate"
    /\ last.replies = <<"vehicle_add_failed">>

\* C24: a waybill row appears only in the step that ends a waybill
\* conversation with the save, one row with a new id; a stored row never
\* changes; and a row disappears only in the step that deletes its vehicle.
C24_WaybillRowsWrittenOnce ==
    [][/\ \A w \in waybills' \ waybills :
            /\ last'.replies = <<"saved">>
            /\ last'.handler \in {"waybill_fuel_end_choice", "waybill_fuel_end_manual"}
            /\ last'.from \in {"WaybillStates:fuel_end_choice",
                               "WaybillStates:fuel_end_manual"}
            /\ w["id"] = nextWaybillId /\ nextWaybillId' = nextWaybillId + 1
            /\ \A x \in waybills : x["id"] < w["id"]
            /\ waybills' = waybills \cup {w}
       /\ \A w \in waybills \ waybills' :
            /\ last'.replies = <<"vehicle_deleted">>
            /\ \E v \in vehicles \ vehicles' : v.id = w["vehicle_id"]
            /\ \A x \in waybills' : x["id"] # w["id"]]_vars

\* Two waybills were stored one after the other, and both went with their
\* vehicle.
C24_TwoRowsWentWithTheirVehicle ==
    /\ last.replies = <<"vehicle_deleted">>
    /\ nextWaybillId = 3
    /\ waybills = {}

\* C25: the store holds at most one waybill for each vehicle, user and
\* date: a second waybill conversation completed by the same user for the
\* same vehicle on the same day does not leave two rows.
C25_OneWaybillPerVehicleUserDate ==
    \A w1, w2 \in waybills :
        /\ w1["vehicle_id"] = w2["vehicle_id"]
        /\ w1["user_id"] = w2["user_id"]
        /\ w1["date"] = w2["date"]
        => w1["id"] = w2["id"]

\* C25 (amended): the store may hold several waybills for one vehicle, user
\* and date; a waybill is identified by its id alone, and a conversation
\* completed for a vehicle, user and date that already have a row adds a row
\* of a new id and keeps the rows that were there.
C25_WaybillsOfOneDayKeptApart ==
    [][ /\ \A w1, w2 \in waybills' : w1["id"] = w2["id"] => w1 = w2
        /\ \A w \in waybills' \ waybills :
              /\ \A x \in waybills : x["id"] # w["id"]
              /\ {x \in waybills : /\ x["vehicle_id"] = w["vehicle_id"]
                                   /\ x["user_id"] = w["user_id"]
                                   /\ x["date"] = w["date"]} \subseteq waybills' ]_vars

\* C25 witness: two rows of the same vehicle, user and date, of ids 1 and 2.
C25_TwoWaybillsOfOneDay ==
    \E w1, w2 \in waybills :
        /\ w1["id"] = 1 /\ w2["id"] = 2
        /\ w1["vehicle_id"] = w2["vehicle_id"]
        /\ w1["user_id"] = w2["user_id"]
        /\ w1["date"] = w2["date"]

\* C26: when a vehicle has been selected for a new waybill, the previous data
\* offered to the user are the closing odometer and the closing fuel of the
\* waybill of greatest (date, id) among the waybills of that vehicle written
\* by that user, whatever other users wrote; when that user wrote none for
\* the vehicle, nothing is offered and the start time is asked at once.
C26_PreviousDataAreTheUsersLatest ==
    \A u \in Users :
        /\ last.user = u
        /\ last.handler = "waybill_vehicle_selected"
        /\ last.replies \notin {<<"vehicle_not_found">>, <<"vehicle_info_error">>}
        => LET d == data[u]
               mine == {w \in waybills : /\ w["vehicle_id"] = Get(d, "vehicle_id", 0)
                                         /\ w["user_id"] = u}
               newest == {w \in mine :
                            \A x \in mine :
                                \/ x["date"] < w["date"]
                                \/ x["date"] = w["date"] /\ x["id"] <= w["id"]}
           IN  IF mine = {}
               THEN /\ last.replies = <<"ask_start_time">>
                    /\ St(u) = "WaybillStates:start_time"
                    /\ "previous_odo" \notin DOMAIN d
                    /\ "previous_fuel" \notin DOMAIN d
               ELSE /\ last.replies = <<"ask_initial_data">>
                    /\ St(u) = "WaybillStates:initial_data_choice"
                    /\ \E w \in newest :
                           /\ Get(d, "previous_odo", -1) = w["odo_end"]
                           /\ Get(d, "previous_fuel", -1) = w["fuel_end"]

\* C26 witness: the first user is offered the 2 km and the fuel of their own
\* waybill although the second user wrote a later one, ending at 3 km, for the
\* same vehicle.
C26_LaterWaybillOfAnotherUserIgnored ==
    /\ last.user = "u1"
    /\ last.handler = "waybill_vehicle_selected"
    /\ last.replies = <<"ask_initial_data">>
    /\ Get(data["u1"], "previous_odo", -1) = 200
    /\ \E mine, other \in waybills :
           /\ mine["user_id"] = "u1" /\ other["user_id"] = "u2"
           /\ mine["vehicle_id"] = other["vehicle_id"]
           /\ mine["date"] < other["date"] /\ mine["id"] < other["id"]
           /\ mine["odo_end"] = 200 /\ other["odo_end"] = 300
           /\ mine["fuel_end"] # other["fuel_end"]

\* C27: a vehicle leaves the store only in a step of delete_vehicle_confirm
\* (the handler of "yes, delete") taken in the confirm_delete stage, and the
\* vehicle removed is the one kept in the session; the session reaches
\* confirm_delete only through delete_vehicle_select, which keeps a vehicle of
\* the list shown, and the kept vehicle does not change while the stage
\* lasts.  Every other step taken from a stage of the delete conversation
\* (declining, cancelling, any other message) leaves vehicles and waybills as
\* they were.
C27_VehicleRemovedOnlyOnConfirmation ==
    [][ /\ vehicles \ vehicles' # {}
           => /\ last'.handler = "delete_vehicle_confirm"
              /\ last'.from = "DeleteVehicleStates:confirm_delete"
              /\ last'.replies = <<"vehicle_deleted">>
              /\ St(last'.user) = "DeleteVehicleStates:confirm_delete"
              /\ vehicles \ vehicles' =
                   {v \in vehicles : v.id = Get(data[last'.user], "vehicle_id", 0)}
        /\ \A u \in Users :
              /\ St(u)' = "DeleteVehicleStates:confirm_delete"
              /\ \/ St(u) # "DeleteVehicleStates:confirm_delete"
                 \/ Get(data'[u], "vehicle_id", 0) # Get(data[u], "vehicle_id", 0)
              => /\ last'.user = u
                 /\ last'.handler = "delete_vehicle_select"
                 /\ St(u) = "DeleteVehicleStates:select_vehicle"
                 /\ \E v \in Get(data[u], "vehicles", {}) :
                        Get(data'[u], "vehicle_id", 0) = v.id
        /\ /\ last' # last
           /\ last'.from \in {"DeleteVehicleStates:select_vehicle",
                              "DeleteVehicleStates:confirm_delete"}
           /\ last'.handler # "delete_vehicle_confirm"
           => vehicles' = vehicles /\ waybills' = waybills ]_vars

\* C27 witness: the first user selected the vehicle, confirmed in the
\* confirm_delete stage, and the store is empty.
C27_ConfirmedDeletionEmptiedTheStore ==
    /\ last.user = "u1"
    /\ last.handler = "delete_vehicle_confirm"
    /\ last.from = "DeleteVehicleStates:confirm_delete"
    /\ last.replies = <<"vehicle_deleted">>
    /\ St("u1") = None
    /\ vehicles = {}
    /\ nextVehicleId = 2

\* C28: the reply to a cancel token ("/cancel" or the cancel button) received
\* in a stage of a conversation names the operation that was cancelled (the
\* search, the addition, the deletion or the waybill) and is not the one
\* reply "action cancelled" common to all of them.
C28_CancelReplyNamesTheOperation ==
    /\ last.handler = "cmd_cancel"
    /\ last.from \in Stages
    /\ last.replies \notin {<<"main_menu">>, <<"vehicles_menu">>}
    => last.replies =
         << CASE Flow(last.from) = "search_vehicle" -> "search_cancelled"
              [] Flow(last.from) = "add_vehicle" -> "add_cancelled"
              [] Flow(last.from) = "delete_vehicle" -> "delete_cancelled"
              [] OTHER -> "waybill_cancelled" >>

\* C29: the hours kept by the end_time stage are, to the nearest hundredth of
\* an hour, those of e - s minutes when the return e is not before the
\* departure s, and those of e + 1440 - s minutes (the interval crossing
\* midnight) when it is; in the second case they are positive, and they are
\* never more than 24 hours.
C29_HoursAcrossMidnight ==
    \A u \in Users :
        /\ St(u) \in WaybillStates
        /\ "hours" \in DOMAIN data[u]
        => LET s == Get(data[u], "start_time", 0)
               e == Get(data[u], "end_time", 0)
               hours == data[u]["hours"]
               minutes == IF e < s THEN e + 1440 - s ELSE e - s
           IN  /\ s \in 0..1439 /\ e \in 0..1439
               /\ 60 * hours - 100 * minutes \in -30..30
               /\ e < s => minutes > 0 /\ hours > 0
               /\ minutes <= 1440 /\ hours <= 2400

\* C29 witness: left at 08:00 and back at 07:59, 23.98 hours are kept.
C29_BackAMinuteBeforeLeaving ==
    /\ last.handler = "waybill_end_time"
    /\ St("u1") = "WaybillStates:odo_end"
    /\ Get(data["u1"], "start_time", 0) = 480
    /\ Get(data["u1"], "end_time", 0) = 479
    /\ Get(data["u1"], "hours", 0) = 2398

\* C30: a waybill of distance 0 is stored and summarised like any other: the
\* step that stores it answers with the summary, in which the specific
\* consumption is 0 and nothing is raised, and leaves the user without stage
\* and without session data.
C30_ZeroDistanceWaybillSummarised ==
    [][ \A w \in waybills' \ waybills :
           w["distance"] = 0
           => /\ w["odo_end"] = w["odo_start"]
              /\ fuel_consumption(w) = [raised |-> FALSE, value |-> 0]
              /\ last'.replies = <<"saved">>
              /\ \E u \in Users :
                     last'.user = u /\ St(u)' = None /\ Data(u)' = NoData ]_vars

\* C30 witness: a waybill from 1 km to 1 km is stored, its summary sent and
\* the session cleared.
C30_ZeroDistanceWaybillStored ==
    /\ last.user = "u1"
    /\ last.replies = <<"saved">>
    /\ St("u1") = None
    /\ data["u1"] = NoData
    /\ \E w \in waybills :
           /\ w["id"] = nextWaybillId - 1
           /\ w["distance"] = 0
           /\ w["odo_start"] = 100 /\ w["odo_end"] = 100

\* C31: a process started without BOT_TOKEN never gets beyond the loading of
\* the module: it has not created the bot or the dispatcher, has not
\* initialised the database, polls for no message and has handled none; and
\* where it has ended, its exit code is not 0.
C31_NoTokenNoStart ==
    ~process.token
    => /\ process.phase \in {"import", "exited"}
       /\ process.phase = "exited" => process.code # 0
       /\ process.phase = "import" => ENABLED Boot
       /\ last.handler = "none"
       /\ vehicles = {} /\ waybills = {}
       /\ \A u \in Users : St(u) = None /\ Data(u) = NoData

\* C31 witness: the process without BOT_TOKEN has ended with exit code 1.
C31_ExitedWithCodeOne ==
    /\ ~process.token
    /\ process.phase = "exited"
    /\ process.code = 1
    /\ last.handler = "none"

\* C32: a decimal typed with a comma is taken like the same number typed
\* with a point: at the fuel_start stage "45,5" is handled as 45.5 is (same
\* stored value, same reply, same next stage), and at the fuel_rate stage
\* "0,12" as 0.12 is.
C32_CommaDecimalAccepted ==
    \A u \in Users :
        /\ St(u) = "WaybillStates:fuel_start"
           => /\ Route(St(u), Txt(<<"4", "5", ",", "5">>)) = Route(St(u), Num(4550))
              /\ waybill_fuel_start(u, Txt(<<"4", "5", ",", "5">>))
                   = waybill_fuel_start(u, Num(4550))
        /\ St(u) = "AddVehicleStates:fuel_rate"
           => /\ Route(St(u), Txt(<<"0", ",", "1", "2">>)) = Route(St(u), Num(12))
              /\ add_vehicle_fuel_rate(u, Txt(<<"0", ",", "1", "2">>))
                   = add_vehicle_fuel_rate(u, Num(12))

\* C33: the cancel button received in the search stage or in a stage of the
\* add-vehicle conversation is handled by that stage's handler, whose cancel
\* branch answers "search cancelled" or "addition cancelled" with the
\* vehicles menu.
C33_StageHandlerTakesCancel ==
    \A u \in Users :
        /\ St(u) = "SearchVehicleStates:search_term"
           => /\ Route(St(u), Btn(BtnCancel)) = "search_vehicle_process"
              /\ search_vehicle_process(u, Btn(BtnCancel)).r = <<"search_cancelled">>
        /\ St(u) \in AddVehicleStates
           => /\ Route(St(u), Btn(BtnCancel))
                   \in {"add_vehicle_number", "add_vehicle_fuel_rate",
                        "add_vehicle_idle_rate"}
              /\ add_vehicle_number(u, Btn(BtnCancel)).r = <<"add_cancelled">>

\* C34: when a menu button has just put a user in the first stage of a
\* conversation, the session holds nothing but what that entry itself wrote
\* (the list of vehicles shown), whatever the user was doing before.
C34_FlowEntryStartsFromEmptySession ==
    \A u \in Users :
        /\ last.user = u
        /\ last.handler \in {"add_vehicle_start", "search_vehicle_start",
                             "delete_vehicle_start", "new_waybill"}
        /\ St(u) \in {"AddVehicleStates:number", "SearchVehicleStates:search_term",
                      "DeleteVehicleStates:select_vehicle",
                      "WaybillStates:vehicle_selected"}
        => DOMAIN Data(u) \subseteq {"vehicles"}

\* C35: every stored waybill references a stored vehicle; the row a step adds
\* references the vehicle kept in the saving user's session, which is a
\* vehicle of the list that user was shown and still stored under the same
\* id; and a terminal step taken when no vehicle of the session's id is
\* stored any more (another user deleted it, whether or not the plate was
\* added again) answers 'save failed' and adds nothing.
C35_WaybillReferencesSelectedVehicle ==
    [][ /\ \A w \in waybills' : \E v \in vehicles' : v.id = w["vehicle_id"]
        /\ \A w \in waybills' \ waybills :
              \E v \in vehicles :
                  /\ v.id = w["vehicle_id"]
                  /\ v.id = Get(Data(last'.user), "vehicle_id", 0)
                  /\ v.number = Get(Data(last'.user), "vehicle_number", <<>>)
                  /\ v \in Get(Data(last'.user), "vehicles", {})
        /\ \A u \in Users :
              /\ last'.user = u
              /\ St(u) \in {"WaybillStates:fuel_end_choice",
                            "WaybillStates:fuel_end_manual"}
              /\ St(u)' = None
              /\ last'.replies \in SaveReplies
              /\ \A v \in vehicles : v.id # Get(Data(u), "vehicle_id", 0)
              => /\ last'.replies = <<"save_failed">>
                 /\ waybills' = waybills ]_vars

\* C35 witness: the first user's save failed for the vehicle of id 1, deleted
\* meanwhile, although a vehicle of the same plate is stored again under id 2.
C35_SaveFailedThoughPlateAddedAgain ==
    /\ last.user = "u1"
    /\ last.replies = <<"save_failed">>
    /\ waybills = {}
    /\ nextVehicleId = 3
    /\ \E v \in vehicles : v.id = 2 /\ v.number = <<"A", "B", "1">>
    /\ \A v \in vehicles : v.id # 1

\* C36: a user without stage has no stored field: every handler that writes
\* fields leaves the user in a stage, and every handler that leaves the user
\* without stage (completion, cancel, /start, abort) empties the fields.
C36_NoStageNoFields ==
    \A u \in Users : St(u) = None => Data(u) = NoData

\* C36 witness: the user declined the deletion of a vehicle selected from the
\* list kept in the session, and is left without stage and without fields.
C36_DeclinedDeletionLeftNothing ==
    /\ last.user = "u1"
    /\ last.handler = "delete_vehicle_cancel"
    /\ last.from = "DeleteVehicleStates:confirm_delete"
    /\ St("u1") = None
    /\ Data("u1") = NoData
    /\ vehicles # {}

\* C37: a step changes the vehicles table only as the last step of the
\* add-vehicle conversation (one row added, answered 'vehicle added') or as a
\* confirmed deletion (rows removed, answered 'vehicle deleted'), and the
\* waybills table only as a save step (one row added, answered with the
\* summary) or as a confirmed deletion (rows removed); every other step, of
\* a conversation cancelled, restarted, aborted or going on, leaves both
\* tables and both id counters as they were.
C37_TablesWrittenAtTerminalSteps ==
    [][ /\ vehicles' # vehicles
           => \/ /\ last'.handler = "add_vehicle_idle_rate"
                 /\ last'.from = "AddVehicleStates:idle_rate"
                 /\ last'.replies = <<"vehicle_added">>
                 /\ vehicles \subseteq vehicles'
                 /\ Cardinality(vehicles') = Cardinality(vehicles) + 1
                 /\ waybills' = waybills
              \/ /\ last'.handler = "delete_vehicle_confirm"
                 /\ last'.from = "DeleteVehicleStates:confirm_delete"
                 /\ last'.replies = <<"vehicle_deleted">>
                 /\ vehicles' \subseteq vehicles
                 /\ waybills' \subseteq waybills
        /\ waybills' # waybills
           => \/ /\ last'.handler \in {"waybill_fuel_end_choice",
                                      "waybill_fuel_end_manual"}
                 /\ last'.replies = <<"saved">>
                 /\ waybills \subseteq waybills'
                 /\ Cardinality(waybills') = Cardinality(waybills) + 1
                 /\ vehicles' = vehicles
              \/ /\ last'.handler = "delete_vehicle_confirm"
                 /\ last'.replies = <<"vehicle_deleted">>
                 /\ vehicles' # vehicles
        /\ last'.replies \notin {<<"vehicle_added">>, <<"vehicle_deleted">>, <<"saved">>}
           => /\ vehicles' = vehicles /\ nextVehicleId' = nextVehicleId
              /\ waybills' = waybills /\ nextWaybillId' = nextWaybillId ]_vars

\* C37 witness: a waybill conversation that had collected its fields up to
\* the fuel balance was cancelled, and the tables hold the vehicle and no
\* waybill.
C37_CancelledBeforeSaveWroteNothing ==
    /\ last.handler = "cmd_cancel"
    /\ last.from = "WaybillStates:fuel_end_choice"
    /\ Cardinality(vehicles) = 1
    /\ waybills = {}
    /\ nextWaybillId = 1

\* C38: a step of /help, of the statistics, of the bot information, of the
\* vehicles menu, of the list of vehicles or of the unknown-command handler
\* leaves every user's stage and stored fields and both tables unchanged, in
\* whatever stage the message arrives.
C38_InfoHandlersChangeNothing ==
    [][ last'.handler \in {"cmd_help", "cmd_stats", "cmd_info", "vehicles_menu",
                           "list_vehicles", "unknown_command"}
        => /\ state' = state
           /\ data' = data
           /\ vehicles' = vehicles /\ nextVehicleId' = nextVehicleId
           /\ waybills' = waybills /\ nextWaybillId' = nextWaybillId ]_vars

\* C38 witness: the statistics were asked in the middle of a waybill
\* conversation, which is still at its odometer stage with its fields.
C38_StatisticsAskedMidConversation ==
    /\ last.user = "u1"
    /\ last.handler = "cmd_stats"
    /\ last.from = "WaybillStates:odo_end"
    /\ St("u1") = "WaybillStates:odo_end"
    /\ Has(Data("u1"), "end_time")

====
